---- MODULE Spec2Model ----
(***************************************************************************)
(* The Reports page of the retail dashboard (src/src/pages/Reports.tsx):   *)
(* the date/shop filter and the analytics object that useMemo derives from *)
(* the sales and expenses held by the application context; the lists of    *)
(* the Sales and Stock Transfers pages and the sale form of the Sales page *)
(* (src/src/pages/Sales.tsx, src/src/pages/StockTransfers.tsx).            *)
(*                                                                         *)
(* Money is counted in whole currency units.  A timestamp is a number of   *)
(* ticks since the epoch in UTC, TicksPerDay ticks to the day; day 0 is    *)
(* 1 January of a common year.                                             *)
(***************************************************************************)
EXTENDS Integers, Sequences, FiniteSets, TLC

\* sales, expenses: the records of the application context (useApp).
\* selectedShop, dateRange: the filter state of the page (useState).
\* now: what new Date() returns while the page computes; tz: the offset of
\* the browser's zone, in ticks east of UTC.
\* stockTransfers: the transfers of the application context.
\* formData: the fields of the sale form of the Sales page (useState).
\* isAddModalOpen, currentPage: whether the Record New Sale modal is open and
\* the page of the list the Sales page shows (useState).
\* toast: the kind of the last toast a page has raised (useToast), '' for none.
\* transferFormData, isTransferModalOpen: formData and isAddModalOpen of the
\* Stock Transfers page (useState).
VARIABLES sales, expenses, selectedShop, dateRange, now, tz, stockTransfers, formData,
          isAddModalOpen, currentPage, toast, transferFormData, isTransferModalOpen

vars == <<sales, expenses, selectedShop, dateRange, now, tz, stockTransfers, formData,
          isAddModalOpen, currentPage, toast, transferFormData, isTransferModalOpen>>

(***************************************************************************)
(* Bounds of the model.                                                    *)
(***************************************************************************)
\* Ticks of the clock in one day.
TicksPerDay == 2
\* Sales recorded on top of the initial data.
MaxSales == 2
\* Expenses recorded on top of the initial data.
MaxExpenses == 2
\* Stock transfers initiated.
MaxTransfers == 2
\* Records added through the forms of the Sales and Stock Transfers pages.
MaxSubmits == 1

(***************************************************************************)
(* Program constants.                                                      *)
(***************************************************************************)
\* for (let i = 29; i >= 0; i--): the daily trend has 30 buckets.
TrendDays == 30
\* .slice(0, 10) of the product ranking.
TopN == 10
\* const [itemsPerPage] = useState(10)
ItemsPerPage == 10

(***************************************************************************)
(* Dates.                                                                  *)
(***************************************************************************)
\* The calendar day on which the runs start (10 February).
Today == 40

\* A timestamp: tick `tick` of UTC day `day`.
At(day, tick) == day * TicksPerDay + tick

\* The value of an <input type="date">: '' is <<>>, 'YYYY-MM-DD' of day d is <<d>>.
NoDate == <<>>
DateInput(d) == <<d>>

\* !s of a string s.
IsEmptyString(s) == Len(s) = 0

\* new Date('YYYY-MM-DD').getTime(): a date-only string is midnight UTC.
ParseDateInput(s) == s[1] * TicksPerDay

\* The local calendar day of timestamp t in a zone `offset` ticks east of UTC.
LocalDay(t, offset) == (t + offset) \div TicksPerDay

\* Midnight UTC of t's UTC day, whatever the zone.
StartOfUTCDay(t, offset) == (t \div TicksPerDay) * TicksPerDay

\* d.setHours(0, 0, 0, 0); d.getTime(): local midnight of t's local day.
StartOfLocalDay(t, offset) == LocalDay(t, offset) * TicksPerDay - offset

DaysAheadMidnight(t, i, offset) == (LocalDay(t, offset) + i) * TicksPerDay - offset

\* d.setDate(d.getDate() - i); d.setHours(0, 0, 0, 0); d.getTime()
DaysAgoMidnight(t, i, offset) == (LocalDay(t, offset) - i) * TicksPerDay - offset

MonthNames == <<"Jan", "Feb", "Mar", "Apr", "May", "Jun",
                "Jul", "Aug", "Sep", "Oct", "Nov", "Dec">>
\* Days of the year before each month, and the length of the year.
MonthStart == <<0, 31, 59, 90, 120, 151, 181, 212, 243, 273, 304, 334, 365>>

\* Month and day of the month of each day of the year: day 40 is <<"Feb", 10>>.
MonthDayOfYearDay ==
    [yd \in 0..(MonthStart[13] - 1) |->
        LET m == CHOOSE k \in 1..12 : MonthStart[k] <= yd /\ yd < MonthStart[k + 1]
        IN  <<MonthNames[m], yd - MonthStart[m] + 1>>]

\* toLocaleDateString('en-US', {month: 'short', day: 'numeric'}) of the local
\* day of timestamp t.  The year is dropped.
FormatMonthDay(t, offset) == MonthDayOfYearDay[LocalDay(t, offset) % MonthStart[13]]

\* The year of day 0, the epoch of Date.
EpochYear == 1970

\* toLocaleDateString('en-US', {month: 'short', year: 'numeric'}) of the local
\* day of timestamp t: 'Feb 1970'.  Every year of the model is a common year.
FormatMonthYear(t, offset) ==
    MonthDayOfYearDay[LocalDay(t, offset) % MonthStart[13]][1] \o " " \o
        ToString(EpochYear + (LocalDay(t, offset) \div MonthStart[13]))

(***************************************************************************)
(* JavaScript values held by the accumulator objects, and plain objects.   *)
(***************************************************************************)
JSNum(n) == [num |-> n]
JSStr(s) == [str |-> s]
JSFn(name) == [fn |-> name]
Undefined == [undefined |-> TRUE]
\* The number NaN.
JSNaN == [nan |-> TRUE]

IsNum(v) == DOMAIN v = {"num"}
IsStr(v) == DOMAIN v = {"str"}
IsFn(v) == DOMAIN v = {"fn"}

\* Boolean(v): functions and objects are true, undefined is false.
Truthy(v) ==
    IF IsNum(v) THEN v.num # 0
    ELSE IF IsStr(v) THEN v.str # ""
    ELSE v # Undefined /\ v # JSNaN

\* String(v) of a number, a string, a built-in function, NaN or undefined.
JSToString(v) ==
    IF IsNum(v) THEN ToString(v.num)
    ELSE IF IsStr(v) THEN v.str
    ELSE IF IsFn(v) THEN "function " \o v.fn \o "() { [native code] }"
    ELSE IF v = JSNaN THEN "NaN"
    ELSE "undefined"

\* a + b: string concatenation where an operand is a string or a function
\* (whose primitive value is a string); otherwise numeric addition, in which
\* undefined counts as NaN and NaN makes the sum NaN.
JSAdd(a, b) ==
    IF IsNum(a) /\ IsNum(b) THEN JSNum(a.num + b.num)
    ELSE IF IsStr(a) \/ IsStr(b) \/ IsFn(a) \/ IsFn(b)
    THEN JSStr(JSToString(a) \o JSToString(b))
    ELSE JSNaN

\* a || b
JSOr(a, b) == IF Truthy(a) THEN a ELSE b

\* Canonical array-index strings among the keys of the model, with their value.
ArrayIndexKeys == ("1" :> 1) @@ ("2" :> 2) @@ ("3" :> 3) @@ ("10" :> 10)
IsArrayIndex(k) == k \in DOMAIN ArrayIndexKeys

\* Methods every object literal inherits from Object.prototype.
ObjectPrototype ==
    ("constructor" :> "Object") @@ ("toString" :> "toString") @@
    ("valueOf" :> "valueOf") @@ ("hasOwnProperty" :> "hasOwnProperty")

\* {}: `keys` lists the own properties in the order Object.values/entries
\* enumerate them, `val` holds their values.
EmptyObject == [keys |-> <<>>, val |-> <<>>]

HasOwn(obj, k) == \E i \in 1..Len(obj.keys) : obj.keys[i] = k

OwnValue(obj, k) == obj.val[CHOOSE i \in 1..Len(obj.keys) : obj.keys[i] = k]

\* obj[k]: own property, else the prototype chain, else undefined.
GetProperty(obj, k) ==
    IF HasOwn(obj, k) THEN OwnValue(obj, k)
    ELSE IF k \in DOMAIN ObjectPrototype THEN JSFn(ObjectPrototype[k])
    ELSE Undefined

\* Where a new own property k goes in the enumeration order: array indices
\* first, in ascending numeric order, then the other strings in creation order.
InsertPosition(keys, k) ==
    IF IsArrayIndex(k)
    THEN 1 + Cardinality({i \in 1..Len(keys) :
                 IsArrayIndex(keys[i]) /\ ArrayIndexKeys[keys[i]] < ArrayIndexKeys[k]})
    ELSE Len(keys) + 1

InsertAt(s, p, x) == SubSeq(s, 1, p - 1) \o <<x>> \o SubSeq(s, p, Len(s))

\* obj[k] = v
SetProperty(obj, k, v) ==
    IF HasOwn(obj, k)
    THEN LET i == CHOOSE j \in 1..Len(obj.keys) : obj.keys[j] = k
         IN  [obj EXCEPT !.val[i] = v]
    ELSE LET p == InsertPosition(obj.keys, k)
         IN  [keys |-> InsertAt(obj.keys, p, k), val |-> InsertAt(obj.val, p, v)]

\* Object.values(obj)
ObjectValues(obj) == obj.val

(***************************************************************************)
(* getFilteredData: the date filter, then the shop filter.                 *)
(***************************************************************************)
PassesDateExclusive(item, range) ==
    /\ ~(~IsEmptyString(range.from) /\ item.date <= ParseDateInput(range.from))
    /\ ~(~IsEmptyString(range.to) /\ item.date >= ParseDateInput(range.to))

\* The callback of data.filter in filterDataByDate.
PassesDate(item, range) ==
    /\ ~(~IsEmptyString(range.from) /\ item.date < ParseDateInput(range.from))
    /\ ~(~IsEmptyString(range.to) /\ item.date > ParseDateInput(range.to))

FilterDataByDate(data, range) ==
    IF IsEmptyString(range.from) /\ IsEmptyString(range.to)
    THEN data
    ELSE SelectSeq(data, LAMBDA item : PassesDate(item, range))

FilterDataByShop(data, shop) ==
    IF shop = ""
    THEN data
    ELSE SelectSeq(data, LAMBDA item : item.shopId = shop)

GetFilteredData(data, shop, range) ==
    FilterDataByShop(FilterDataByDate(data, range), shop)

(***************************************************************************)
(* Numbers that come out of a division: num/den in lowest terms, den > 0;  *)
(* den = 0 stands for the non-finite results (NaN: 0/0, Infinity: 1/0,     *)
(* -Infinity: -1/0).                                                       *)
(***************************************************************************)
Abs(n) == IF n < 0 THEN -n ELSE n

RECURSIVE Gcd(_, _)
Gcd(a, b) == IF b = 0 THEN a ELSE Gcd(b, a % b)

Sign(n) == IF n > 0 THEN 1 ELSE IF n < 0 THEN -1 ELSE 0

\* a / b
Divide(a, b) ==
    IF b = 0 THEN [num |-> Sign(a), den |-> 0]
    ELSE LET g == Gcd(Abs(a), Abs(b))
         IN  [num |-> Sign(b) * (a \div g), den |-> Abs(b) \div g]

\* q * k for an integer k > 0
Times(q, k) ==
    IF q.den = 0 THEN q
    ELSE LET g == Gcd(Abs(k), q.den)
         IN  [num |-> q.num * (k \div g), den |-> q.den \div g]

Zero == [num |-> 0, den |-> 1]

\* The numbers the sale form computes are kept as fractions, NaN among them.
NaN == [num |-> 0, den |-> 0]
Num(n) == [num |-> n, den |-> 1]
IsNaN(x) == x.den = 0 /\ x.num = 0
IsFinite(x) == x.den # 0

\* a * b and a - b of finite numbers or NaN (the form divides by 100 only, so
\* no infinity arises).
NumMul(a, b) ==
    IF ~IsFinite(a) \/ ~IsFinite(b) THEN NaN ELSE Divide(a.num * b.num, a.den * b.den)
NumSub(a, b) ==
    IF ~IsFinite(a) \/ ~IsFinite(b) THEN NaN
    ELSE Divide(a.num * b.den - b.num * a.den, a.den * b.den)
\* a / k for an integer k # 0
NumOver(a, k) == IF ~IsFinite(a) THEN NaN ELSE Divide(a.num, a.den * k)

\* a > b: false when either is NaN.
NumGreater(a, b) == IsFinite(a) /\ IsFinite(b) /\ a.num * b.den > b.num * a.den
\* a >= b
NumAtLeast(a, b) == IsFinite(a) /\ IsFinite(b) /\ a.num * b.den >= b.num * a.den
\* a === b: NaN equals nothing.
NumEquals(a, b) == IsFinite(a) /\ IsFinite(b) /\ a = b

\* a || 0: NaN and 0 are false.
NumOrZero(a) == IF IsNaN(a) \/ a.num = 0 THEN Num(0) ELSE a

(***************************************************************************)
(* The rounding of a quotient.  A JavaScript number is a binary64 double:  *)
(* a / n is the double nearest to the quotient (ties to the even           *)
(* significand), a significand having FractionBits + 1 bits.  For whole    *)
(* numbers a, n >= 1 with 2^i <= a / n < 2^(i+1), the double is            *)
(* M / 2^(FractionBits - i) for a whole number M, and M * n exceeds        *)
(* a * 2^(FractionBits - i) by QuotientError(a, n).                        *)
(***************************************************************************)
FractionBits == 52

RECURSIVE Pow2(_)
Pow2(k) == IF k = 0 THEN 1 ELSE 2 * Pow2(k - 1)

\* 2^k modulo n
RECURSIVE Pow2Mod(_, _)
Pow2Mod(k, n) == IF k = 0 THEN 1 % n ELSE (2 * Pow2Mod(k - 1, n)) % n

\* The i with 2^i <= a / n < 2^(i+1).
BinaryExponent(a, n) ==
    CHOOSE i \in -16..16 :
        IF i >= 0 THEN Pow2(i) * n <= a /\ a < Pow2(i + 1) * n
        ELSE n <= a * Pow2(-i) /\ a * Pow2(-i - 1) < n

\* With k = FractionBits - i: a * 2^k = m * n + r, and the double a / n has
\* the significand m or m + 1, whichever is nearer, the even one on a tie.
QuotientError(a, n) ==
    LET k    == FractionBits - BinaryExponent(a, n)
        r    == ((a % n) * Pow2Mod(k, n)) % n
        mOdd == ((a % (2 * n)) * Pow2Mod(k, 2 * n)) % (2 * n) >= n
        up   == 2 * r > n \/ (2 * r = n /\ mOdd)
    IN  IF up THEN n - r ELSE -r

(***************************************************************************)
(* The rounding of a sum.  Amounts with a fractional part are doubles that *)
(* are no decimal fractions: 0.1 is 0x1999999999999A / 2^56.  Such an      *)
(* amount is held as the whole number of grains of 2^-GrainBits it is      *)
(* worth, written in three limbs of LimbBits bits, the lowest first.  The  *)
(* form holds every double from 2^-4 up to 2^15 without loss.  a + b is    *)
(* the double nearest to the exact sum, ties to the even significand.      *)
(***************************************************************************)
GrainBits == 56
LimbBits == 24
LimbBase == Pow2(LimbBits)
SignificandBits == FractionBits + 1

\* The whole number n in grains.
FromWhole(n) == <<0, 0, n * Pow2(GrainBits - 2 * LimbBits)>>

\* Whether the grains make a whole number.
IsWhole(a) == a[1] = 0 /\ a[2] = 0 /\ a[3] % Pow2(GrainBits - 2 * LimbBits) = 0

\* The exact sum of two numbers of grains.
BigAdd(a, b) ==
    LET s0 == a[1] + b[1]
        s1 == a[2] + b[2] + s0 \div LimbBase
    IN  <<s0 % LimbBase, s1 % LimbBase, a[3] + b[3] + s1 \div LimbBase>>

\* The number of bits of v < 2^LimbBits, and of a number of grains.
Bits(v) == CHOOSE n \in 0..LimbBits : v < Pow2(n) /\ (n = 0 \/ Pow2(n - 1) <= v)
BitLength(a) ==
    IF a[3] > 0 THEN 2 * LimbBits + Bits(a[3])
    ELSE IF a[2] > 0 THEN LimbBits + Bits(a[2]) ELSE Bits(a[1])

\* The double nearest to a number of grains: the bits below the
\* SignificandBits highest are dropped, to the nearest, to even on a tie.
RoundToDouble(a) ==
    LET s    == BitLength(a) - SignificandBits
        rem  == a[1] % Pow2(s)
        kept == <<a[1] - rem, a[2], a[3]>>
        odd  == (a[1] \div Pow2(s)) % 2 = 1
        up   == 2 * rem > Pow2(s) \/ (2 * rem = Pow2(s) /\ odd)
    IN  IF s <= 0 THEN a
        ELSE IF up THEN BigAdd(kept, <<Pow2(s), 0, 0>>) ELSE kept

\* a + b of two doubles
DoubleAdd(a, b) == RoundToDouble(BigAdd(a, b))

\* The doubles the literals 0.1, 0.2, 0.3 and 0.7 denote:
\* 0x1999999999999A / 2^56, 0x1999999999999A / 2^55, 0x13333333333333 / 2^54
\* and 0x16666666666666 / 2^53.
Tenth == <<10066330, 10066329, 25>>
TwoTenths == <<3355444, 3355443, 51>>
ThreeTenths == <<13421772, 13421772, 76>>
SevenTenths == <<3355440, 3355443, 179>>

(***************************************************************************)
(* parseInt and parseFloat. A text is a sequence of characters.  The      *)
(* texts of the model hold no exponent, no radix prefix and no "Infinity". *)
(***************************************************************************)
DigitValue ==
    ("0" :> 0) @@ ("1" :> 1) @@ ("2" :> 2) @@ ("3" :> 3) @@ ("4" :> 4) @@
    ("5" :> 5) @@ ("6" :> 6) @@ ("7" :> 7) @@ ("8" :> 8) @@ ("9" :> 9)
Digits == DOMAIN DigitValue

\* How many characters at the start of s satisfy the test.
LeadingCount(s, chars) ==
    CHOOSE k \in 0..Len(s) :
        /\ \A i \in 1..k : s[i] \in chars
        /\ (k = Len(s) \/ s[k + 1] \notin chars)

RECURSIVE DecimalValue(_)
DecimalValue(ds) ==
    IF ds = <<>> THEN 0
    ELSE DecimalValue(SubSeq(ds, 1, Len(ds) - 1)) * 10 + DigitValue[ds[Len(ds)]]

RECURSIVE Pow10(_)
Pow10(m) == IF m = 0 THEN 1 ELSE 10 * Pow10(m - 1)

\* Leading white space is skipped.
SkipSpaces(s) == SubSeq(s, LeadingCount(s, {" "}) + 1, Len(s))

IsSigned(s) == s # <<>> /\ s[1] \in {"+", "-"}
Unsigned(s) == IF IsSigned(s) THEN Tail(s) ELSE s
WithSign(s, magnitude) ==
    IF IsSigned(s) /\ s[1] = "-"
    THEN [num |-> -magnitude.num, den |-> magnitude.den] ELSE magnitude

\* parseInt(text): an optional sign and the digits up to the first character
\* that is no digit; NaN where no digit comes first.
ParseInt(text) ==
    LET s    == SkipSpaces(text)
        body == Unsigned(s)
        n    == LeadingCount(body, Digits)
    IN  IF n = 0 THEN NaN ELSE WithSign(s, Num(DecimalValue(SubSeq(body, 1, n))))

\* parseFloat(text): an optional sign, digits, and a point with digits; NaN
\* where neither part has a digit.
ParseFloat(text) ==
    LET s     == SkipSpaces(text)
        body  == Unsigned(s)
        n     == LeadingCount(body, Digits)
        rest  == SubSeq(body, n + 1, Len(body))
        m     == IF rest # <<>> /\ rest[1] = "." THEN LeadingCount(Tail(rest), Digits) ELSE 0
        whole == DecimalValue(SubSeq(body, 1, n))
        frac  == DecimalValue(SubSeq(rest, 2, m + 1))
    IN  IF n = 0 /\ m = 0 THEN NaN
        ELSE WithSign(s, Divide(whole * Pow10(m) + frac, Pow10(m)))

(***************************************************************************)
(* The reductions of the analytics memo.                                   *)
(***************************************************************************)
\* A reduction that takes its first element as the initial value and adds the rest.
RECURSIVE SumTotalAmountNoInitial(_)
SumTotalAmountNoInitial(ss) ==
    IF Len(ss) <= 1 THEN 0
    ELSE SumTotalAmountNoInitial(SubSeq(ss, 1, Len(ss) - 1)) + ss[Len(ss)].totalAmount

\* filteredSales.reduce((sum, sale) => sum + sale.totalAmount, 0)
RECURSIVE SumTotalAmount(_)
SumTotalAmount(ss) ==
    IF ss = <<>> THEN 0
    ELSE SumTotalAmount(SubSeq(ss, 1, Len(ss) - 1)) + ss[Len(ss)].totalAmount

\* filteredExpenses.reduce((sum, expense) => sum + expense.amount, 0)
RECURSIVE SumAmount(_)
SumAmount(es) ==
    IF es = <<>> THEN 0
    ELSE SumAmount(SubSeq(es, 1, Len(es) - 1)) + es[Len(es)].amount

\* filteredSales.reduce((sum, sale) => sum + sale.totalAmount, 0) over sales
\* whose amounts are doubles in grains: every addition rounds.
RECURSIVE SumDoubleAmounts(_)
SumDoubleAmounts(ss) ==
    IF ss = <<>> THEN FromWhole(0)
    ELSE DoubleAdd(SumDoubleAmounts(SubSeq(ss, 1, Len(ss) - 1)), ss[Len(ss)].totalAmount)

\* The reduce into {} by payment method over such sales, as the mapping from
\* each method met to its sum: acc[m] = (acc[m] || 0) + sale.totalAmount.
PaymentDoubleSums(ss) ==
    [m \in {ss[i].paymentMethod : i \in 1..Len(ss)} |->
        SumDoubleAmounts(SelectSeq(ss, LAMBDA sale : sale.paymentMethod = m))]

ProfitOfExpenses(ts, te) == te - ts

\* const profit = totalSales - totalExpenses
Profit(ts, te) == ts - te

ProfitMarginUnguarded(ts, p) == Times(Divide(p, ts), 100)

\* const profitMargin = totalSales > 0 ? (profit / totalSales) * 100 : 0
ProfitMargin(ts, p) ==
    IF ts > 0 THEN Times(Divide(p, ts), 100) ELSE Zero

\* An entry whose expenses are those of every shop.
ShopEntryOfAllExpenses(shop, fs, fe) ==
    LET shopSales == SelectSeq(fs, LAMBDA sale : sale.shopId = shop.id)
    IN  [shopName     |-> shop.name,
         sales        |-> SumTotalAmount(shopSales),
         expenses     |-> SumAmount(fe),
         transactions |-> Len(shopSales),
         profit       |-> SumTotalAmount(shopSales) - SumAmount(fe)]

\* The callback of shops.map.
ShopEntry(shop, fs, fe) ==
    LET shopSales    == SelectSeq(fs, LAMBDA sale : sale.shopId = shop.id)
        shopExpenses == SelectSeq(fe, LAMBDA expense : expense.shopId = shop.id)
    IN  [shopName     |-> shop.name,
         sales        |-> SumTotalAmount(shopSales),
         expenses     |-> SumAmount(shopExpenses),
         transactions |-> Len(shopSales),
         profit       |-> SumTotalAmount(shopSales) - SumAmount(shopExpenses)]

ActiveShops(shopList, fs) ==
    SelectSeq(shopList, LAMBDA shop : \E i \in 1..Len(fs) : fs[i].shopId = shop.id)

SalesByShopActiveOnly(shopList, fs, fe) ==
    [i \in 1..Len(ActiveShops(shopList, fs)) |->
        ShopEntry(ActiveShops(shopList, fs)[i], fs, fe)]

\* shops.map(shop => ...)
SalesByShop(shopList, fs, fe) ==
    [i \in 1..Len(shopList) |-> ShopEntry(shopList[i], fs, fe)]

\* One step of the productSales reduction.  Product ids are generated
\* identifiers, none of them the name of an Object.prototype member, so
\* !acc[sale.productId] is true exactly when the id is no own property yet.
ProductSalesStep(acc, sale) ==
    LET init == IF HasOwn(acc, sale.productId) THEN acc
                ELSE SetProperty(acc, sale.productId,
                         [name |-> sale.productName, quantity |-> 0,
                          revenue |-> 0, transactions |-> 0])
        old  == OwnValue(init, sale.productId)
    IN  SetProperty(init, sale.productId,
            [name         |-> old.name,
             quantity     |-> old.quantity + sale.quantity,
             revenue      |-> old.revenue + sale.totalAmount,
             transactions |-> old.transactions + 1])

RECURSIVE ProductSales(_)
ProductSales(fs) ==
    IF fs = <<>> THEN EmptyObject
    ELSE ProductSalesStep(ProductSales(SubSeq(fs, 1, Len(fs) - 1)), fs[Len(fs)])

\* Array.prototype.sort((a, b) => b.revenue - a.revenue): a stable sort, an
\* entry goes behind every entry the comparator does not put after it.
InsertByRevenue(sorted, x) ==
    LET p == 1 + Cardinality({i \in 1..Len(sorted) : sorted[i].revenue >= x.revenue})
    IN  InsertAt(sorted, p, x)

RECURSIVE SortByRevenue(_)
SortByRevenue(xs) ==
    IF xs = <<>> THEN <<>>
    ELSE InsertByRevenue(SortByRevenue(SubSeq(xs, 1, Len(xs) - 1)), xs[Len(xs)])

\* xs.slice(0, n)
Slice(xs, n) == SubSeq(xs, 1, IF Len(xs) < n THEN Len(xs) ELSE n)

TopProductsSliceFirst(fs) ==
    SortByRevenue(Slice(ObjectValues(ProductSales(fs)), TopN))

\* Object.values(productSales).sort(...).slice(0, 10)
TopProducts(fs) == Slice(SortByRevenue(ObjectValues(ProductSales(fs))), TopN)

\* acc[key] = (acc[key] || 0) + value
AccumulateValue(acc, key, value) ==
    SetProperty(acc, key, JSAdd(JSOr(GetProperty(acc, key), JSNum(0)), value))

\* acc[key] = (acc[key] || 0) + amount, amount a number
Accumulate(acc, key, amount) == AccumulateValue(acc, key, JSNum(amount))

\* record[field] of a record that may lack the field: undefined where it does.
ReadNumber(record, field) ==
    IF field \in DOMAIN record THEN JSNum(record[field]) ELSE Undefined

\* records.reduce((sum, record) => sum + record[field], 0) on records that
\* may lack the field: totalSales with field totalAmount, totalExpenses with
\* field amount.
RECURSIVE TotalOfField(_, _)
TotalOfField(records, field) ==
    IF records = <<>> THEN JSNum(0)
    ELSE JSAdd(TotalOfField(SubSeq(records, 1, Len(records) - 1), field),
               ReadNumber(records[Len(records)], field))

\* records.reduce((acc, record) => { acc[record[keyField]] =
\* (acc[record[keyField]] || 0) + record[valueField]; return acc }, {}) on
\* records that may lack valueField: paymentMethods and expenseCategories.
RECURSIVE BreakdownOfField(_, _, _)
BreakdownOfField(records, keyField, valueField) ==
    IF records = <<>> THEN EmptyObject
    ELSE AccumulateValue(
             BreakdownOfField(SubSeq(records, 1, Len(records) - 1), keyField, valueField),
             records[Len(records)][keyField],
             ReadNumber(records[Len(records)], valueField))

\* An accumulator that starts with every method of the form at 0.
ZeroFilledMethods ==
    SetProperty(SetProperty(SetProperty(EmptyObject, "cash", JSNum(0)),
                            "card", JSNum(0)), "mobile", JSNum(0))

RECURSIVE PaymentMethodsZeroFilled(_)
PaymentMethodsZeroFilled(fs) ==
    IF fs = <<>> THEN ZeroFilledMethods
    ELSE Accumulate(PaymentMethodsZeroFilled(SubSeq(fs, 1, Len(fs) - 1)),
                    fs[Len(fs)].paymentMethod, fs[Len(fs)].totalAmount)

\* filteredSales.reduce((acc, sale) => { acc[sale.paymentMethod] = ...; return acc }, {})
RECURSIVE PaymentMethods(_)
PaymentMethods(fs) ==
    IF fs = <<>> THEN EmptyObject
    ELSE Accumulate(PaymentMethods(SubSeq(fs, 1, Len(fs) - 1)),
                    fs[Len(fs)].paymentMethod, fs[Len(fs)].totalAmount)

\* filteredExpenses.reduce((acc, expense) => { acc[expense.category] = ...; return acc }, {})
RECURSIVE ExpenseCategories(_)
ExpenseCategories(fe) ==
    IF fe = <<>> THEN EmptyObject
    ELSE Accumulate(ExpenseCategories(SubSeq(fe, 1, Len(fe) - 1)),
                    fe[Len(fe)].category, fe[Len(fe)].amount)

\* filteredSales.reduce((acc, sale) => { acc[month] = (acc[month] || 0) +
\* sale.totalAmount; return acc }, {}), month the month and year of the sale.
RECURSIVE SalesByMonth(_, _)
SalesByMonth(fs, offset) ==
    IF fs = <<>> THEN EmptyObject
    ELSE Accumulate(SalesByMonth(SubSeq(fs, 1, Len(fs) - 1), offset),
                    FormatMonthYear(fs[Len(fs)].date, offset), fs[Len(fs)].totalAmount)

\* The sales of the bucket whose day starts at `date`.
DaySales(fs, date, offset) ==
    SelectSeq(fs, LAMBDA sale : StartOfLocalDay(sale.date, offset) = date)

\* The body of the daily-trend loop for one i.
DayBucket(fs, i, t, offset) ==
    [date         |-> FormatMonthDay(DaysAgoMidnight(t, i, offset), offset),
     amount       |-> SumTotalAmount(DaySales(fs, DaysAgoMidnight(t, i, offset), offset)),
     transactions |-> Len(DaySales(fs, DaysAgoMidnight(t, i, offset), offset))]

\* The first index of the daily-trend loop: for (let i = 29; ...).
FirstDayIndex == TrendDays - 1

\* for (let i = 29; i >= 0; i--) dailySales.push(...): the k-th bucket pushed
\* is the one of i = 29 - (k - 1).
DailySales(fs, t, offset) ==
    [k \in 1..(FirstDayIndex + 1) |-> DayBucket(fs, FirstDayIndex - (k - 1), t, offset)]

AverageTransactionValueUnguarded(fs, ts) == Divide(ts, Len(fs))

\* filteredSales.length > 0 ? totalSales / filteredSales.length : 0
AverageTransactionValue(fs, ts) ==
    IF Len(fs) > 0 THEN Divide(ts, Len(fs)) ELSE Zero

\* One step of the customerAnalysis reduction.  acc[name] is looked up through
\* the prototype chain.  Where it is undefined, an entry is created with
\* totals 0 and the three updates that follow make it the entry of this one
\* sale; where it is an inherited method, no entry is created and the
\* updates write properties of that method, not of acc.
CustomerStep(acc, sale) ==
    LET name == sale.customerName
    IN  IF ~Truthy(GetProperty(acc, name))
        THEN SetProperty(acc, name,
                 [name         |-> name,
                  totalSpent   |-> 0 + sale.totalAmount,
                  transactions |-> 0 + 1,
                  lastPurchase |-> sale.date])
        ELSE IF HasOwn(acc, name)
        THEN LET old == OwnValue(acc, name)
             IN  SetProperty(acc, name,
                     [name         |-> old.name,
                      totalSpent   |-> old.totalSpent + sale.totalAmount,
                      transactions |-> old.transactions + 1,
                      lastPurchase |-> IF sale.date > old.lastPurchase
                                       THEN sale.date ELSE old.lastPurchase])
        ELSE acc

\* filteredSales.filter(sale => sale.customerName).reduce(..., {}), on the
\* sales the filter has kept.
RECURSIVE CustomerAnalysis(_)
CustomerAnalysis(named) ==
    IF named = <<>> THEN EmptyObject
    ELSE CustomerStep(CustomerAnalysis(SubSeq(named, 1, Len(named) - 1)),
                      named[Len(named)])

\* Array.prototype.sort((a, b) => b.totalSpent - a.totalSpent), a stable sort:
\* an entry comes after the entries that spent more and after the earlier
\* entries that spent the same.
SortBySpent(xs) ==
    LET Rank(i) == 1 + Cardinality({j \in 1..Len(xs) :
                        \/ xs[j].totalSpent > xs[i].totalSpent
                        \/ xs[j].totalSpent = xs[i].totalSpent /\ j < i})
    IN  [k \in 1..Len(xs) |-> xs[CHOOSE i \in 1..Len(xs) : Rank(i) = k]]

\* Object.values(customerAnalysis).sort(...).slice(0, 10)
TopCustomers(fs) ==
    Slice(SortBySpent(ObjectValues(CustomerAnalysis(
              SelectSeq(fs, LAMBDA sale : ~IsEmptyString(sale.customerName))))), TopN)

\* Object.values(product.stock).reduce((sum, qty) => sum + qty, 0)
RECURSIVE SumQty(_)
SumQty(qtys) ==
    IF qtys = <<>> THEN 0
    ELSE SumQty(SubSeq(qtys, 1, Len(qtys) - 1)) + qtys[Len(qtys)]

TotalStock(product) == SumQty(ObjectValues(product.stock))

\* productSalesData.reduce((sum, sale) => sum + sale.quantity, 0)
RECURSIVE SumQuantity(_)
SumQuantity(ss) ==
    IF ss = <<>> THEN 0
    ELSE SumQuantity(SubSeq(ss, 1, Len(ss) - 1)) + ss[Len(ss)].quantity

TurnoverRateUnguarded(totalSold, totalStock) == Divide(totalSold, totalStock)

\* const turnoverRate = totalStock > 0 ? totalSold / totalStock : 0
TurnoverRate(totalSold, totalStock) ==
    IF totalStock > 0 THEN Divide(totalSold, totalStock) ELSE Zero

\* The callback of products.map.
StockEntry(product, fs) ==
    LET totalStock       == TotalStock(product)
        productSalesData == SelectSeq(fs, LAMBDA sale : sale.productId = product.id)
        totalSold        == SumQuantity(productSalesData)
    IN  [name         |-> product.name,
         category     |-> product.category,
         totalStock   |-> totalStock,
         stockValue   |-> totalStock * product.price,
         totalSold    |-> totalSold,
         turnoverRate |-> TurnoverRate(totalSold, totalStock),
         isLowStock   |-> totalStock < product.minStock]

\* products.map(product => ...)
StockAnalysis(productList, fs) ==
    [i \in 1..Len(productList) |-> StockEntry(productList[i], fs)]

\* products.filter(product => totalStock < product.minStock) of the Stock
\* Transfers page.
LowStockProducts(productList) ==
    SelectSeq(productList, LAMBDA product : TotalStock(product) < product.minStock)

(***************************************************************************)
(* The percentages and ratios that the page derives while it renders.      *)
(***************************************************************************)
\* (amount / analytics.totalSales) * 100 of a payment method
PaymentShare(amount, ts) == Times(Divide(amount, ts), 100)

\* (amount / analytics.totalExpenses) * 100 of an expense category
ExpenseShare(amount, te) == Times(Divide(amount, te), 100)

\* analytics.totalSales > 0 ? (analytics.totalExpenses / analytics.totalSales) * 100 : 0
ExpenseToRevenue(te, ts) == IF ts > 0 THEN Times(Divide(te, ts), 100) ELSE Zero

\* shop.transactions > 0 ? (shop.sales / shop.transactions).toFixed(2) : '0.00'
ShopAverageTransaction(shop) ==
    IF shop.transactions > 0 THEN Divide(shop.sales, shop.transactions) ELSE Zero

(***************************************************************************)
(* Arrays as objects with identity.  A heap maps the name of an array to   *)
(* its elements: the collections of the context are held under their own   *)
(* names, an array that a computation creates gets a name of its own.  The *)
(* result of an array method is the heap it leaves and the array it        *)
(* returns.                                                                *)
(***************************************************************************)
\* A new array holding `items`.
NewArray(h, items) ==
    LET ref == "array" \o ToString(Cardinality(DOMAIN h))
    IN  [heap |-> (ref :> items) @@ h, ref |-> ref]

\* Array.prototype.sort((a, b) => new Date(b.date).getTime() - new
\* Date(a.date).getTime()), a stable sort: latest first, equal dates in the
\* order they had.
SortByDateDesc(xs) ==
    LET Rank(i) == 1 + Cardinality({j \in 1..Len(xs) :
                        \/ xs[j].date > xs[i].date
                        \/ xs[j].date = xs[i].date /\ j < i})
    IN  [k \in 1..Len(xs) |-> xs[CHOOSE i \in 1..Len(xs) : Rank(i) = k]]

\* arr.sort(...) sorts arr itself and returns it.
ArraySortByDateDesc(h, ref) ==
    [heap |-> [h EXCEPT ![ref] = SortByDateDesc(h[ref])], ref |-> ref]

\* xs.slice(start, end)
SliceFrom(xs, start, end) ==
    SubSeq(xs, start + 1, IF Len(xs) < end THEN Len(xs) ELSE end)

\* A date test that leaves out the sales dated exactly at a bound.
MatchesDateExclusive(item, range) ==
    /\ (IsEmptyString(range.from) \/ item.date > ParseDateInput(range.from))
    /\ (IsEmptyString(range.to) \/ item.date < ParseDateInput(range.to))

\* let matchesDate = true; if (dateRange.from || dateRange.to) { ... } of the
\* list filters of the Sales and Stock Transfers pages.
MatchesDate(item, range) ==
    /\ (IsEmptyString(range.from) \/ item.date >= ParseDateInput(range.from))
    /\ (IsEmptyString(range.to) \/ item.date <= ParseDateInput(range.to))

\* The callback of sales.filter on the Sales page; the search box is empty,
\* and every string includes ''.
MatchesSale(sale, f) ==
    /\ (f.shop = "" \/ sale.shopId = f.shop)
    /\ (f.payment = "" \/ sale.paymentMethod = f.payment)
    /\ MatchesDate(sale, f.range)

\* sales.sort(...).filter(...): the same list, by sorting the collection itself.
FilteredSalesSortFirst(h, f) ==
    LET sorted == ArraySortByDateDesc(h, "sales")
    IN  NewArray(sorted.heap,
                 SelectSeq(sorted.heap[sorted.ref], LAMBDA sale : MatchesSale(sale, f)))

\* sales.filter(...).sort(...) of the Sales page: filter returns a new array,
\* which sort then orders.
FilteredSalesList(h, f) ==
    LET kept == NewArray(h, SelectSeq(h["sales"], LAMBDA sale : MatchesSale(sale, f)))
    IN  ArraySortByDateDesc(kept.heap, kept.ref)

\* filteredSales.slice(startIndex, startIndex + itemsPerPage), a new array;
\* startIndex is (currentPage - 1) * itemsPerPage for the page shown.
PaginatedList(list, page, itemsPerPage) ==
    NewArray(list.heap,
             SliceFrom(list.heap[list.ref], (page - 1) * itemsPerPage,
                       (page - 1) * itemsPerPage + itemsPerPage))

\* Math.ceil(filteredSales.length / itemsPerPage)
TotalPages(count, itemsPerPage) == (count + itemsPerPage - 1) \div itemsPerPage

\* The callback of stockTransfers.filter on the Stock Transfers page, the
\* search box empty.
MatchesTransfer(transfer, f) ==
    /\ (f.status = "" \/ transfer.status = f.status)
    /\ (f.fromShop = "" \/ transfer.fromShopId = f.fromShop)
    /\ (f.toShop = "" \/ transfer.toShopId = f.toShop)
    /\ MatchesDate(transfer, f.range)

\* stockTransfers.filter(...).sort(...) of the Stock Transfers page.
FilteredTransfersList(h, f) ==
    LET kept == NewArray(h, SelectSeq(h["stockTransfers"],
                                      LAMBDA transfer : MatchesTransfer(transfer, f)))
    IN  ArraySortByDateDesc(kept.heap, kept.ref)

\* filterDataByDate and filterDataByShop return `data` itself where they do
\* not filter, and a new array where they do.
GetFilteredDataArray(h, ref, shop, range) ==
    LET byDate == IF IsEmptyString(range.from) /\ IsEmptyString(range.to)
                  THEN [heap |-> h, ref |-> ref]
                  ELSE NewArray(h, SelectSeq(h[ref], LAMBDA item : PassesDate(item, range)))
    IN  IF shop = ""
        THEN byDate
        ELSE NewArray(byDate.heap,
                      SelectSeq(byDate.heap[byDate.ref], LAMBDA item : item.shopId = shop))

\* The arrays the analytics callback sorts: Object.values(productSales) and
\* Object.values(customerAnalysis), each a new array, sorted in place and
\* then sliced.  Every other step (reduce, filter, map, push onto the new
\* dailySales) reads the filtered arrays or writes arrays of its own.
AnalyticsArrays(h, shop, range) ==
    LET fs        == GetFilteredDataArray(h, "sales", shop, range)
        fe        == GetFilteredDataArray(fs.heap, "expenses", shop, range)
        products  == NewArray(fe.heap, ObjectValues(ProductSales(fe.heap[fs.ref])))
        ranked    == [heap |-> [products.heap EXCEPT ![products.ref] = SortByRevenue(@)],
                      ref  |-> products.ref]
        top       == NewArray(ranked.heap, Slice(ranked.heap[ranked.ref], TopN))
        named     == NewArray(top.heap,
                              SelectSeq(top.heap[fs.ref],
                                        LAMBDA sale : ~IsEmptyString(sale.customerName)))
        customers == NewArray(named.heap,
                              ObjectValues(CustomerAnalysis(named.heap[named.ref])))
        spenders  == [heap |-> [customers.heap EXCEPT ![customers.ref] = SortBySpent(@)],
                      ref  |-> customers.ref]
    IN  [heap         |-> spenders.heap,
         filteredSales |-> fs.ref,
         topProducts  |-> top.ref,
         topCustomers |-> spenders.ref]

(***************************************************************************)
(* The data of the application context, drawn from small sets.             *)
(***************************************************************************)
ShopA == [id |-> "A", name |-> "Matola"]
ShopB == [id |-> "B", name |-> "Beira"]
ShopC == [id |-> "C", name |-> "Nampula"]

\* The shops of the context, in the order the context lists them.
Shops == <<ShopB, ShopA, ShopC>>

\* { shopId: quantity, ... }: the stock of a product, shop by shop.
StockOf(shopIds, qtys) == [keys |-> shopIds, val |-> qtys]

NewProduct(id, name, category, price, stock, minStock) ==
    [id |-> id, name |-> name, category |-> category, price |-> price,
     stock |-> stock, minStock |-> minStock]

\* The products of the context, in the order the context lists them: Soap
\* holds exactly its minimum, Rice less, Salt is out of stock everywhere and
\* Oil is kept in one shop without a minimum.
Products ==
    << NewProduct("2", "Soap", "Hygiene", 100, StockOf(<<"A", "B">>, <<3, 0>>), 3),
       NewProduct("1", "Rice", "Food", 50, StockOf(<<"A", "B", "C">>, <<1, 1, 0>>), 5),
       NewProduct("p-7", "Salt", "Food", 10, StockOf(<<"A">>, <<0>>), 2),
       NewProduct("10", "Oil", "Food", 20, StockOf(<<"B">>, <<4>>), 0) >>

\* What the recorder passes to addSale, with the date the context gives the sale.
\* customerName is the text of the form field; "" is a sale without a name
\* (formData.customerName || undefined).
NewSale(date, productId, productName, shopId, quantity, totalAmount, paymentMethod, customerName) ==
    [date |-> date, productId |-> productId, productName |-> productName,
     shopId |-> shopId, quantity |-> quantity, totalAmount |-> totalAmount,
     paymentMethod |-> paymentMethod, customerName |-> customerName]

\* The record the context stores: the n-th sale gets the id "s<n>".
WithId(input, n) ==
    [id |-> "s" \o ToString(n), date |-> input.date, productId |-> input.productId,
     productName |-> input.productName, shopId |-> input.shopId,
     quantity |-> input.quantity, totalAmount |-> input.totalAmount,
     paymentMethod |-> input.paymentMethod, customerName |-> input.customerName]

\* The sales a user records during a run; the customer name is free text.
SaleInputs ==
    { NewSale(At(Today, 0), "2", "Soap", "A", 1, 100, "cash", "Ana"),
      NewSale(At(Today, 1), "1", "Rice", "B", 2, 100, "card", ""),
      NewSale(At(Today - (TrendDays - 1), 0), "p-7", "Salt", "A", 5, 50, "cash", "Ana"),
      NewSale(At(Today - TrendDays, TicksPerDay - 1), "10", "Oil", "B", 1, 0, "mobile",
              "constructor") }

SeedProducts == <<"p-1", "3", "p-2", "1", "p-3", "10", "p-4", "2", "p-5", "p-6", "p-7">>
SeedAmounts  == <<30, 80, 10, 80, 60, 20, 70, 40, 90, 50, 20>>
SeedMethods  == <<"cash", "card", "mobile">>

\* Sales the context already holds when the page opens: eleven products, one
\* sale each to a customer of its own, one per day before Today.
SeedSales ==
    [i \in 1..Len(SeedProducts) |->
        WithId(NewSale(At(Today - i, i % TicksPerDay), SeedProducts[i], SeedProducts[i],
                       IF i % 2 = 0 THEN "A" ELSE "B", i, SeedAmounts[i],
                       SeedMethods[(i % 3) + 1], "c-" \o ToString(i)), i)]

NewExpense(date, shopId, amount, category) ==
    [date |-> date, shopId |-> shopId, amount |-> amount, category |-> category]

\* The expenses a user records during a run; the category is free text.
ExpenseInputs ==
    { NewExpense(At(Today, 0), "A", 30, "Rent"),
      NewExpense(At(Today - 1, TicksPerDay - 1), "B", 20, "Transport"),
      NewExpense(At(Today - 2, 0), "A", 5, "constructor") }

\* A sale of 50 at shop B, the second sale of the worked example of the
\* documentation (the first, 100 at shop A, is among SaleInputs).
ExampleSaleInputs ==
    { NewSale(At(Today, 1), "1", "Rice", "B", 1, 50, "card", "") }

\* Seven small sales the context may hold when the page opens, 29 in all.
SmallAmounts == <<5, 4, 3, 6, 2, 4, 5>>
SmallSales ==
    [i \in 1..Len(SmallAmounts) |->
        WithId(NewSale(At(Today - i, 0), "1", "Rice", IF i % 2 = 0 THEN "A" ELSE "B",
                       1, SmallAmounts[i], "cash", ""), i)]

\* Three sales of 0.10, 0.20 and 0.30 the context may hold when the pages
\* open, the oldest first, and the sales recorded later: of 2, of 1 and of
\* 0.70.  Their amounts are in grains.
DecimalAmounts == <<Tenth, TwoTenths, ThreeTenths>>
DecimalSales ==
    [i \in 1..Len(DecimalAmounts) |->
        WithId(NewSale(At(Today - (Len(DecimalAmounts) - i), 0), "1", "Rice",
                       IF i = 2 THEN "B" ELSE "A", 1, DecimalAmounts[i], "cash", ""), i)]
DecimalSaleInputs ==
    { NewSale(At(Today, 0), "2", "Soap", "A", 1, FromWhole(2), "cash", ""),
      NewSale(At(Today, 1), "1", "Rice", "A", 2, FromWhole(1), "card", ""),
      NewSale(At(Today - 1, 1), "1", "Rice", "B", 1, SevenTenths, "cash", "") }

InitialSales == {<<>>, SeedSales}

\* Expenses the context already holds when the pages open.
SeedExpenses ==
    << NewExpense(At(Today - 1, 0), "A", 30, "Rent"),
       NewExpense(At(Today - 2, 0), "B", 20, "Transport") >>

InitialExpenses == {<<>>, SeedExpenses}

\* A record as a producer that leaves out a field hands it over.
WithoutField(record, field) == [k \in DOMAIN record \ {field} |-> record[k]]

\* Malformed records a producer may hand to the context: a sale without
\* totalAmount, a sale without quantity, an expense without amount.
MalformedSaleInputs ==
    { WithoutField(NewSale(At(Today, 0), "2", "Soap", "A", 1, 100, "cash", "Ana"),
                   "totalAmount"),
      WithoutField(NewSale(At(Today - 1, 0), "1", "Rice", "B", 2, 100, "card", ""),
                   "quantity") }
MalformedExpenseInputs ==
    { WithoutField(NewExpense(At(Today, 0), "A", 30, "Rent"), "amount") }

\* What the Stock Transfers page passes to addStockTransfer, with the id, the
\* date and the status the context gives the transfer.
NewTransfer(id, date, productName, fromShopId, toShopId, quantity, status) ==
    [id |-> id, date |-> date, productName |-> productName, fromShopId |-> fromShopId,
     toShopId |-> toShopId, quantity |-> quantity, status |-> status]

\* The transfers a user initiates during a run.
TransferInputs ==
    { NewTransfer("t-1", At(Today - 3, 0), "Soap", "A", "B", 2, "pending"),
      NewTransfer("t-2", At(Today - 1, 0), "Rice", "B", "C", 1, "completed"),
      NewTransfer("t-3", At(Today - 1, 0), "Oil", "B", "A", 1, "pending") }

\* What the product and shop selects and the two number inputs of the sale
\* form are set to.  A number input holds '' or the text of a number, which
\* parseInt need not read as one ('.5').
ProductOptions == {"", "2", "1"}
ShopOptions == {"", "A"}
QuantityTexts ==
    {<<>>, <<"1">>, <<"0">>, <<"-", "2">>, <<"4">>, <<".", "5">>}
DiscountTexts ==
    {<<>>, <<"0">>, <<"1", "2", ".", "5">>, <<"1", "0", "0">>, <<"1", "5", "0">>, <<"-", "5">>}

\* useState({productId: '', shopId: '', quantity: '1', customerName: '',
\* paymentMethod: 'cash', discount: '0', notes: ''}).  The texts of the two
\* number inputs are sequences of characters; notes is passed through
\* unread and left out.
InitialFormData ==
    [productId |-> "", shopId |-> "", quantity |-> <<"1">>, customerName |-> "",
     paymentMethod |-> "cash", discount |-> <<"0">>]

\* useState({productId: '', fromShopId: '', toShopId: '', quantity: '',
\* reason: '', priority: 'normal', notes: ''}) of the Stock Transfers page;
\* reason, priority and notes are passed through unread and left out.
InitialTransferFormData ==
    [productId |-> "", fromShopId |-> "", toShopId |-> "", quantity |-> <<>>]

\* Zones of the browser: UTC, and one tick east of it.
TzOffsets == {0, 1}

\* The clock when the page computes: the first or the last tick of Today (UTC).
ClockReadings == {At(Today, 0), At(Today, TicksPerDay - 1)}

\* The options of the shop select: All Shops, and every shop of the context.
ShopFilters == {""} \cup {Shops[i].id : i \in 1..Len(Shops)}
\* What the date inputs are set to: cleared, or Today.
DateFilters == {NoDate, DateInput(Today)}

(***************************************************************************)
(* The state machine.                                                      *)
(***************************************************************************)
\* const filteredSales = getFilteredData(sales)
filteredSales == GetFilteredData(sales, selectedShop, dateRange)

\* const filteredExpenses = getFilteredData(expenses)
filteredExpenses == GetFilteredData(expenses, selectedShop, dateRange)

\* totalTransactions: the number of all sales, filtered or not.
totalTransactionsUnfiltered == Len(sales)

\* The constants of the useMemo callback.
totalSales == SumTotalAmount(filteredSales)
totalExpenses == SumAmount(filteredExpenses)
profit == Profit(totalSales, totalExpenses)
profitMargin == ProfitMargin(totalSales, profit)
salesByMonth == SalesByMonth(filteredSales, tz)
salesByShop == SalesByShop(Shops, filteredSales, filteredExpenses)
productSales == ProductSales(filteredSales)
topProducts == TopProducts(filteredSales)
paymentMethods == PaymentMethods(filteredSales)
expenseCategories == ExpenseCategories(filteredExpenses)
dailySales == DailySales(filteredSales, now, tz)
stockAnalysis == StockAnalysis(Products, filteredSales)
topCustomers == TopCustomers(filteredSales)
totalTransactions == Len(filteredSales)
averageTransactionValue == AverageTransactionValue(filteredSales, totalSales)

\* The low-stock list of the Stock Transfers page, over the same products.
lowStockProducts == LowStockProducts(Products)

\* The Sales page keeps a shop and a date filter of its own under the same
\* names; here they are set as on the Reports page, the search box empty and
\* no payment method selected.
salesListFilter == [shop |-> selectedShop, payment |-> "", range |-> dateRange]

\* The arrays a computation of a page can reach from the context.
InputHeap ==
    [sales |-> sales, expenses |-> expenses, stockTransfers |-> stockTransfers,
     shops |-> Shops, products |-> Products]

\* filteredSales, totalPages and paginatedSales of the Sales page.
salesList ==
    LET list == FilteredSalesList(InputHeap, salesListFilter) IN list.heap[list.ref]
totalPages == TotalPages(Len(salesList), ItemsPerPage)
paginatedSales ==
    LET page == PaginatedList(FilteredSalesList(InputHeap, salesListFilter),
                              currentPage, ItemsPerPage)
    IN  page.heap[page.ref]

\* totalSales and paymentBreakdown of the Sales page, totalSales and
\* paymentMethods of the Reports page, over amounts in grains.
salesPageTotalSales == SumDoubleAmounts(salesList)
paymentBreakdown == PaymentDoubleSums(salesList)
reportsTotalSales == SumDoubleAmounts(filteredSales)
reportsPaymentMethods == PaymentDoubleSums(filteredSales)

\* averageSale of the Sales page and averageTransactionValue of the Reports
\* page for a total that is a whole number.
WholeOf(a) == a[3] \div Pow2(GrainBits - 2 * LimbBits)
averageSale == AverageTransactionValue(salesList, WholeOf(salesPageTotalSales))
reportsAverage == AverageTransactionValue(filteredSales, WholeOf(reportsTotalSales))

\* The value of the analytics memo, the object the callback returns: useMemo
\* recomputes it whenever sales, expenses, selectedShop or dateRange change.
analytics ==
    [totalSales              |-> totalSales,
     totalExpenses           |-> totalExpenses,
     profit                  |-> profit,
     profitMargin            |-> profitMargin,
     salesByMonth            |-> salesByMonth,
     salesByShop             |-> salesByShop,
     topProducts             |-> topProducts,
     paymentMethods          |-> paymentMethods,
     expenseCategories       |-> expenseCategories,
     dailySales              |-> dailySales,
     stockAnalysis           |-> stockAnalysis,
     topCustomers            |-> topCustomers,
     totalTransactions       |-> totalTransactions,
     averageTransactionValue |-> averageTransactionValue]

\* The state the Sales and Stock Transfers pages mount with.
InitPages ==
    /\ isAddModalOpen = FALSE
    /\ currentPage = 1
    /\ toast = ""
    /\ transferFormData = InitialTransferFormData
    /\ isTransferModalOpen = FALSE

\* The page opens with no filter, on an empty context.
Init ==
    /\ sales = <<>>
    /\ expenses = <<>>
    /\ selectedShop = ""
    /\ dateRange = [from |-> NoDate, to |-> NoDate]
    /\ now \in ClockReadings
    /\ tz \in TzOffsets
    /\ stockTransfers = <<>>
    /\ formData = InitialFormData
    /\ InitPages

\* The page opens on a context that holds no sale yet or the seed sales.
InitSales ==
    /\ sales \in InitialSales
    /\ expenses = <<>>
    /\ selectedShop = ""
    /\ dateRange = [from |-> NoDate, to |-> NoDate]
    /\ now \in ClockReadings
    /\ tz \in TzOffsets
    /\ stockTransfers = <<>>
    /\ formData = InitialFormData
    /\ InitPages

\* The page opens on a context that holds no sale yet or the seven small sales.
InitSmallSales ==
    /\ sales \in {<<>>, SmallSales}
    /\ expenses = <<>>
    /\ selectedShop = ""
    /\ dateRange = [from |-> NoDate, to |-> NoDate]
    /\ now = At(Today, TicksPerDay - 1)
    /\ tz = 0
    /\ stockTransfers = <<>>
    /\ formData = InitialFormData
    /\ InitPages

\* The pages open on a context that holds no sale yet or the three sales of
\* fractional amounts.
InitDecimalSales ==
    /\ sales \in {<<>>, DecimalSales}
    /\ expenses = <<>>
    /\ selectedShop = ""
    /\ dateRange = [from |-> NoDate, to |-> NoDate]
    /\ now = At(Today, TicksPerDay - 1)
    /\ tz = 0
    /\ stockTransfers = <<>>
    /\ formData = InitialFormData
    /\ InitPages

\* Sales recorded since the page opened.
AddedSales ==
    IF Len(sales) >= Len(SeedSales) THEN Len(sales) - Len(SeedSales) ELSE Len(sales)

\* The context records a sale, dated no later than now.
AddSale ==
    /\ AddedSales < MaxSales
    /\ \E input \in SaleInputs :
          /\ input.date <= now
          /\ sales' = Append(sales, WithId(input, Len(sales) + 1))
    /\ UNCHANGED <<expenses, selectedShop, dateRange, now, tz, stockTransfers, formData,
                   isAddModalOpen, currentPage, toast, transferFormData,
                   isTransferModalOpen>>

\* The context records an expense, dated no later than now.
AddExpense ==
    /\ Len(expenses) < MaxExpenses
    /\ \E input \in ExpenseInputs :
          /\ input.date <= now
          /\ expenses' = Append(expenses, input)
    /\ UNCHANGED <<sales, selectedShop, dateRange, now, tz, stockTransfers, formData,
                   isAddModalOpen, currentPage, toast, transferFormData,
                   isTransferModalOpen>>

\* onChange of the shop select.
SetSelectedShop ==
    /\ \E shop \in ShopFilters : selectedShop' = shop
    /\ UNCHANGED <<sales, expenses, dateRange, now, tz, stockTransfers, formData,
                   isAddModalOpen, currentPage, toast, transferFormData,
                   isTransferModalOpen>>

\* onChange of the From date input.
SetDateFrom ==
    /\ \E d \in DateFilters : dateRange' = [dateRange EXCEPT !.from = d]
    /\ UNCHANGED <<sales, expenses, selectedShop, now, tz, stockTransfers, formData,
                   isAddModalOpen, currentPage, toast, transferFormData,
                   isTransferModalOpen>>

\* onChange of the To date input.
SetDateTo ==
    /\ \E d \in DateFilters : dateRange' = [dateRange EXCEPT !.to = d]
    /\ UNCHANGED <<sales, expenses, selectedShop, now, tz, stockTransfers, formData,
                   isAddModalOpen, currentPage, toast, transferFormData,
                   isTransferModalOpen>>

\* onClick of Previous: setCurrentPage(Math.max(1, currentPage - 1)).  The
\* controls are rendered while totalPages > 1, the button is disabled on
\* page 1.
PreviousPage ==
    /\ totalPages > 1
    /\ currentPage # 1
    /\ currentPage' = IF currentPage - 1 > 1 THEN currentPage - 1 ELSE 1
    /\ UNCHANGED <<sales, expenses, selectedShop, dateRange, now, tz, stockTransfers,
                   formData, isAddModalOpen, toast, transferFormData, isTransferModalOpen>>

\* onClick of Next: setCurrentPage(Math.min(totalPages, currentPage + 1)); the
\* button is disabled while currentPage === totalPages.
NextPage ==
    /\ totalPages > 1
    /\ currentPage # totalPages
    /\ currentPage' = IF totalPages < currentPage + 1 THEN totalPages ELSE currentPage + 1
    /\ UNCHANGED <<sales, expenses, selectedShop, dateRange, now, tz, stockTransfers,
                   formData, isAddModalOpen, toast, transferFormData, isTransferModalOpen>>

\* The user works on one page at a time: a page takes input while the form
\* of the other page is as it mounts, its modal closed.
SalesPageAtRest == formData = InitialFormData /\ ~isAddModalOpen
TransfersPageAtRest ==
    transferFormData = InitialTransferFormData /\ ~isTransferModalOpen

\* onClick of the Record Sale button: setIsAddModalOpen(true).
OpenAddModal ==
    /\ TransfersPageAtRest
    /\ isAddModalOpen' = TRUE
    /\ UNCHANGED <<sales, expenses, selectedShop, dateRange, now, tz, stockTransfers,
                   formData, currentPage, toast, transferFormData, isTransferModalOpen>>

\* onClose of the modal and onClick of Cancel: setIsAddModalOpen(false);
\* resetForm().
CloseAddModal ==
    /\ TransfersPageAtRest
    /\ isAddModalOpen' = FALSE
    /\ formData' = InitialFormData
    /\ UNCHANGED <<sales, expenses, selectedShop, dateRange, now, tz, stockTransfers,
                   currentPage, toast, transferFormData, isTransferModalOpen>>

\* onChange of the product select, the shop select, the quantity input and
\* the discount input of the sale form.
SetProductId ==
    /\ TransfersPageAtRest
    /\ \E id \in ProductOptions : formData' = [formData EXCEPT !.productId = id]
    /\ UNCHANGED <<sales, expenses, selectedShop, dateRange, now, tz, stockTransfers,
                   isAddModalOpen, currentPage, toast, transferFormData,
                   isTransferModalOpen>>

SetShopId ==
    /\ TransfersPageAtRest
    /\ \E id \in ShopOptions : formData' = [formData EXCEPT !.shopId = id]
    /\ UNCHANGED <<sales, expenses, selectedShop, dateRange, now, tz, stockTransfers,
                   isAddModalOpen, currentPage, toast, transferFormData,
                   isTransferModalOpen>>

SetQuantity ==
    /\ TransfersPageAtRest
    /\ \E text \in QuantityTexts : formData' = [formData EXCEPT !.quantity = text]
    /\ UNCHANGED <<sales, expenses, selectedShop, dateRange, now, tz, stockTransfers,
                   isAddModalOpen, currentPage, toast, transferFormData,
                   isTransferModalOpen>>

SetDiscount ==
    /\ TransfersPageAtRest
    /\ \E text \in DiscountTexts : formData' = [formData EXCEPT !.discount = text]
    /\ UNCHANGED <<sales, expenses, selectedShop, dateRange, now, tz, stockTransfers,
                   isAddModalOpen, currentPage, toast, transferFormData,
                   isTransferModalOpen>>

\* products.find(p => p.id === id), shops.find(s => s.id === id): the
\* elements with that id, the first of which find returns.
FindById(list, id) == SelectSeq(list, LAMBDA x : x.id = id)

\* selectedProduct && formData.shopId ? selectedProduct.stock[formData.shopId] || 0 : 0
AvailableStock(fd) ==
    LET found == FindById(Products, fd.productId)
    IN  IF found # <<>> /\ fd.shopId # "" /\ HasOwn(found[1].stock, fd.shopId)
        THEN OwnValue(found[1].stock, fd.shopId)
        ELSE 0

\* The argument of addSale, with the id and the date the context gives it.
SubmittedSale(fd, product, shop, n, date) ==
    LET quantityNum    == ParseInt(fd.quantity)
        discount       == NumOrZero(ParseFloat(fd.discount))
        subtotal       == NumMul(Num(product.price), quantityNum)
        discountAmount == NumOver(NumMul(subtotal, discount), 100)
        totalAmount    == NumSub(subtotal, discountAmount)
    IN  [id |-> "s" \o ToString(n), date |-> date,
         productId |-> product.id, productName |-> product.name,
         shopId |-> shop.id, shopName |-> shop.name,
         quantity |-> quantityNum, unitPrice |-> Num(product.price),
         totalAmount |-> totalAmount, customerName |-> fd.customerName,
         paymentMethod |-> fd.paymentMethod, discount |-> discount]

\* A handler that does not compare the quantity with the stock.
SubmitRejectedStockUnchecked(fd) ==
    \/ fd.productId = "" \/ fd.shopId = "" \/ fd.quantity = <<>>
    \/ FindById(Products, fd.productId) = <<>> \/ FindById(Shops, fd.shopId) = <<>>

\* Whether handleSubmit returns with an error toast.
SubmitRejected(fd) ==
    \/ fd.productId = "" \/ fd.shopId = "" \/ fd.quantity = <<>>
    \/ FindById(Products, fd.productId) = <<>> \/ FindById(Shops, fd.shopId) = <<>>
    \/ NumGreater(ParseInt(fd.quantity), Num(AvailableStock(fd)))

\* handleSubmit of the sale form: on an error it raises the error toast and
\* returns; otherwise the sale is passed to addSale, the success toast is
\* raised, the modal is closed and resetForm restores the initial fields.
HandleSubmit ==
    /\ TransfersPageAtRest
    /\ IF SubmitRejected(formData)
       THEN /\ toast' = "error"
            /\ UNCHANGED <<sales, formData, isAddModalOpen>>
       ELSE /\ Len(sales) + Len(stockTransfers) < MaxSubmits
            /\ sales' = Append(sales,
                     SubmittedSale(formData, FindById(Products, formData.productId)[1],
                                   FindById(Shops, formData.shopId)[1], Len(sales) + 1, now))
            /\ toast' = "success"
            /\ isAddModalOpen' = FALSE
            /\ formData' = InitialFormData
    /\ UNCHANGED <<expenses, selectedShop, dateRange, now, tz, stockTransfers,
                   currentPage, transferFormData, isTransferModalOpen>>

\* The values the selects of the transfer form offer: every product; as
\* source every shop that holds the selected product, or every shop while no
\* product is selected; as destination every shop but the source.  Each
\* select starts with the empty option.
TransferShopChoices == {"A", "B"}
FromShopOptions(fd) ==
    LET selectedProduct == FindById(Products, fd.productId)
    IN  {""} \cup {id \in TransferShopChoices :
                      \/ selectedProduct = <<>>
                      \/ /\ HasOwn(selectedProduct[1].stock, id)
                         /\ OwnValue(selectedProduct[1].stock, id) > 0}
ToShopOptions(fd) == {""} \cup {id \in TransferShopChoices : id # fd.fromShopId}

\* onClick of the New Transfer button, and onClose of its modal.
OpenTransferModal ==
    /\ SalesPageAtRest
    /\ isTransferModalOpen' = TRUE
    /\ UNCHANGED <<sales, expenses, selectedShop, dateRange, now, tz, stockTransfers,
                   formData, isAddModalOpen, currentPage, toast, transferFormData>>

CloseTransferModal ==
    /\ SalesPageAtRest
    /\ isTransferModalOpen' = FALSE
    /\ transferFormData' = InitialTransferFormData
    /\ UNCHANGED <<sales, expenses, selectedShop, dateRange, now, tz, stockTransfers,
                   formData, isAddModalOpen, currentPage, toast>>

\* onChange of the product select, the two shop selects and the quantity
\* input of the transfer form.
SetTransferProductId ==
    /\ SalesPageAtRest
    /\ \E id \in ProductOptions :
          transferFormData' = [transferFormData EXCEPT !.productId = id]
    /\ UNCHANGED <<sales, expenses, selectedShop, dateRange, now, tz, stockTransfers,
                   formData, isAddModalOpen, currentPage, toast, isTransferModalOpen>>

SetFromShopId ==
    /\ SalesPageAtRest
    /\ \E id \in FromShopOptions(transferFormData) :
          transferFormData' = [transferFormData EXCEPT !.fromShopId = id]
    /\ UNCHANGED <<sales, expenses, selectedShop, dateRange, now, tz, stockTransfers,
                   formData, isAddModalOpen, currentPage, toast, isTransferModalOpen>>

SetToShopId ==
    /\ SalesPageAtRest
    /\ \E id \in ToShopOptions(transferFormData) :
          transferFormData' = [transferFormData EXCEPT !.toShopId = id]
    /\ UNCHANGED <<sales, expenses, selectedShop, dateRange, now, tz, stockTransfers,
                   formData, isAddModalOpen, currentPage, toast, isTransferModalOpen>>

SetTransferQuantity ==
    /\ SalesPageAtRest
    /\ \E text \in QuantityTexts :
          transferFormData' = [transferFormData EXCEPT !.quantity = text]
    /\ UNCHANGED <<sales, expenses, selectedShop, dateRange, now, tz, stockTransfers,
                   formData, isAddModalOpen, currentPage, toast, isTransferModalOpen>>

\* selectedProduct && formData.fromShopId ? selectedProduct.stock[formData.fromShopId] || 0 : 0
TransferAvailableStock(fd) ==
    AvailableStock([productId |-> fd.productId, shopId |-> fd.fromShopId])

\* The argument of addStockTransfer, with the id, the date and the status the
\* context gives the transfer.
SubmittedTransfer(fd, product, fromShop, toShop, n, date) ==
    [id |-> "t" \o ToString(n), date |-> date, status |-> "pending",
     productId |-> product.id, productName |-> product.name,
     fromShopId |-> fromShop.id, fromShopName |-> fromShop.name,
     toShopId |-> toShop.id, toShopName |-> toShop.name,
     quantity |-> ParseInt(fd.quantity)]

\* A handler that does not compare the two shops.
TransferRejectedSameShopAllowed(fd) ==
    \/ fd.productId = "" \/ fd.fromShopId = "" \/ fd.toShopId = "" \/ fd.quantity = <<>>
    \/ FindById(Products, fd.productId) = <<>>
    \/ FindById(Shops, fd.fromShopId) = <<>> \/ FindById(Shops, fd.toShopId) = <<>>
    \/ NumGreater(ParseInt(fd.quantity), Num(TransferAvailableStock(fd)))

\* Whether handleSubmit of the transfer form returns with an error toast.
TransferRejected(fd) ==
    \/ fd.productId = "" \/ fd.fromShopId = "" \/ fd.toShopId = "" \/ fd.quantity = <<>>
    \/ fd.fromShopId = fd.toShopId
    \/ FindById(Products, fd.productId) = <<>>
    \/ FindById(Shops, fd.fromShopId) = <<>> \/ FindById(Shops, fd.toShopId) = <<>>
    \/ NumGreater(ParseInt(fd.quantity), Num(TransferAvailableStock(fd)))

\* handleSubmit of the transfer form: on an error it raises the error toast
\* and returns; otherwise the transfer is passed to addStockTransfer, the
\* success toast is raised, the modal is closed and resetForm restores the
\* initial fields.
HandleTransferSubmit ==
    /\ SalesPageAtRest
    /\ IF TransferRejected(transferFormData)
       THEN /\ toast' = "error"
            /\ UNCHANGED <<stockTransfers, transferFormData, isTransferModalOpen>>
       ELSE /\ Len(sales) + Len(stockTransfers) < MaxSubmits
            /\ stockTransfers' = Append(stockTransfers,
                     SubmittedTransfer(transferFormData,
                         FindById(Products, transferFormData.productId)[1],
                         FindById(Shops, transferFormData.fromShopId)[1],
                         FindById(Shops, transferFormData.toShopId)[1],
                         Len(stockTransfers) + 1, now))
            /\ toast' = "success"
            /\ isTransferModalOpen' = FALSE
            /\ transferFormData' = InitialTransferFormData
    /\ UNCHANGED <<sales, expenses, selectedShop, dateRange, now, tz, formData,
                   isAddModalOpen, currentPage>>

\* The context takes over a sale that lacks a numeric field.
AddMalformedSale ==
    /\ AddedSales < MaxSales
    /\ \E input \in MalformedSaleInputs :
          sales' = Append(sales, [id |-> "s" \o ToString(Len(sales) + 1)] @@ input)
    /\ UNCHANGED <<expenses, selectedShop, dateRange, now, tz, stockTransfers, formData,
                   isAddModalOpen, currentPage, toast, transferFormData,
                   isTransferModalOpen>>

\* The context takes over an expense that lacks its amount.
AddMalformedExpense ==
    /\ Len(expenses) < Len(SeedExpenses) + MaxExpenses
    /\ \E input \in MalformedExpenseInputs : expenses' = Append(expenses, input)
    /\ UNCHANGED <<sales, selectedShop, dateRange, now, tz, stockTransfers, formData,
                   isAddModalOpen, currentPage, toast, transferFormData,
                   isTransferModalOpen>>

\* The context records a transfer.
AddStockTransfer ==
    /\ Len(stockTransfers) < MaxTransfers
    /\ \E input \in TransferInputs :
          /\ input.date <= now
          /\ \A i \in 1..Len(stockTransfers) : stockTransfers[i].id # input.id
          /\ stockTransfers' = Append(stockTransfers, input)
    /\ UNCHANGED <<sales, expenses, selectedShop, dateRange, now, tz, formData,
                   isAddModalOpen, currentPage, toast, transferFormData,
                   isTransferModalOpen>>

\* The context records the second sale of the worked example.
AddExampleSale ==
    /\ AddedSales < MaxSales
    /\ \E input \in ExampleSaleInputs :
          /\ input.date <= now
          /\ sales' = Append(sales, WithId(input, Len(sales) + 1))
    /\ UNCHANGED <<expenses, selectedShop, dateRange, now, tz, stockTransfers, formData,
                   isAddModalOpen, currentPage, toast, transferFormData,
                   isTransferModalOpen>>

\* The context records a sale whose amount is in grains.
AddDecimalSale ==
    /\ Len(sales) < Len(DecimalSales) + MaxSales
    /\ \E input \in DecimalSaleInputs :
          /\ input.date <= now
          /\ sales' = Append(sales, WithId(input, Len(sales) + 1))
    /\ UNCHANGED <<expenses, selectedShop, dateRange, now, tz, stockTransfers, formData,
                   isAddModalOpen, currentPage, toast, transferFormData,
                   isTransferModalOpen>>

Next ==
    \/ AddSale
    \/ AddExpense
    \/ SetSelectedShop
    \/ SetDateFrom
    \/ SetDateTo

Spec == Init /\ [][Next]_vars

\* The steps that change what the sales aggregations read.
NextSales ==
    \/ AddSale
    \/ SetSelectedShop
    \/ SetDateFrom
    \/ SetDateTo

\* The page on a context that may start with the seed sales and records no
\* expense: the runs of the aggregations that read the sales alone.
SpecSales == InitSales /\ [][NextSales]_vars

\* The pages open at the end of Today in UTC, on a context that holds no
\* expense yet or the seed expenses.
InitLists ==
    /\ sales = <<>>
    /\ expenses \in InitialExpenses
    /\ selectedShop = ""
    /\ dateRange = [from |-> NoDate, to |-> NoDate]
    /\ now = At(Today, TicksPerDay - 1)
    /\ tz = 0
    /\ stockTransfers = <<>>
    /\ formData = InitialFormData
    /\ InitPages

\* The steps that change what the lists of the pages read.
NextLists ==
    \/ AddSale
    \/ AddStockTransfer
    \/ SetSelectedShop

\* The pages that list sales and transfers, next to the Reports page.
SpecLists == InitLists /\ [][NextLists]_vars

\* The steps of a context whose producer hands over malformed records too.
NextMalformed ==
    \/ AddSale
    \/ AddMalformedSale
    \/ AddMalformedExpense
    \/ SetSelectedShop

\* The Reports page on records some of which lack a numeric field.
SpecMalformed == InitLists /\ [][NextMalformed]_vars

\* The steps of the sale form.
NextForm ==
    \/ SetProductId
    \/ SetShopId
    \/ SetQuantity
    \/ SetDiscount
    \/ HandleSubmit

\* The Sales page: the sale form is filled in and submitted.  Here the sales
\* are the ones the form records, their numbers kept as fractions.
SpecForm == InitLists /\ [][NextForm]_vars

\* The steps that lead to the worked example and around it.
NextExample ==
    \/ AddSale
    \/ AddExampleSale
    \/ AddExpense
    \/ SetSelectedShop

\* The Reports page on the sales and expenses of the worked example.
SpecExample == InitLists /\ [][NextExample]_vars

\* The steps of the transfer form.
NextTransferForm ==
    \/ OpenTransferModal
    \/ CloseTransferModal
    \/ SetTransferProductId
    \/ SetFromShopId
    \/ SetToShopId
    \/ SetTransferQuantity
    \/ HandleTransferSubmit

\* The Stock Transfers page: the transfer form is filled in and submitted.
SpecTransferForm == InitLists /\ [][NextTransferForm]_vars

\* The steps of the two forms and their modals, the discount left at '0'.
NextSubmit ==
    \/ OpenAddModal
    \/ CloseAddModal
    \/ SetProductId
    \/ SetShopId
    \/ SetQuantity
    \/ HandleSubmit
    \/ OpenTransferModal
    \/ CloseTransferModal
    \/ SetTransferProductId
    \/ SetFromShopId
    \/ SetToShopId
    \/ SetTransferQuantity
    \/ HandleTransferSubmit

\* The Sales and the Stock Transfers page, used one after the other.
SpecSubmit == InitLists /\ [][NextSubmit]_vars

\* The steps that change the list of the Sales page and the page it shows.
NextPages ==
    \/ AddSale
    \/ SetSelectedShop
    \/ SetDateFrom
    \/ SetDateTo
    \/ PreviousPage
    \/ NextPage

\* The Sales page on a context that holds no sale yet or the seed sales.
SpecPages == InitSales /\ [][NextPages]_vars

\* The Reports page on a context that may start with the seven small sales.
SpecSmallSales == InitSmallSales /\ [][NextSales]_vars

\* The Sales and Reports pages over sales of fractional amounts.
NextDecimalSales ==
    \/ AddDecimalSale
    \/ SetSelectedShop
    \/ SetDateFrom
    \/ SetDateTo
SpecDecimalSales == InitDecimalSales /\ [][NextDecimalSales]_vars

(***************************************************************************)
(* Properties.                                                             *)
(***************************************************************************)
\* The sum of a sequence of numbers.
RECURSIVE SumSeq(_)
SumSeq(xs) == IF xs = <<>> THEN 0 ELSE Head(xs) + SumSeq(Tail(xs))

\* The values f takes on the elements of xs that satisfy the test, in order.
Pick(xs, Test(_), F(_)) ==
    LET kept == SelectSeq(xs, Test) IN [i \in 1..Len(kept) |-> F(kept[i])]

TotalAmountOf(sale) == sale.totalAmount
AmountOf(expense) == expense.amount
Every(x) == TRUE

\* The filter of the page as the specification words it.
InDateRange(record) ==
    /\ (dateRange.from = NoDate \/ record.date >= ParseDateInput(dateRange.from))
    /\ (dateRange.to = NoDate \/ record.date <= ParseDateInput(dateRange.to))

InSelectedShop(record) == selectedShop = "" \/ record.shopId = selectedShop

Kept(record) == InDateRange(record) /\ InSelectedShop(record)

\* C1: getFilteredData keeps a sale or an expense iff its date is inside the
\* inclusive from/to range (an absent end does not restrict) and its shop is
\* the selected one (no selection does not restrict); sales and expenses are
\* filtered alike.
C1_FilterContract ==
    /\ filteredSales = SelectSeq(sales, Kept)
    /\ filteredExpenses = SelectSeq(expenses, Kept)

\* Both ends and a shop are set; records on the boundary are kept, others dropped.
C1_Witness ==
    /\ dateRange.from # NoDate /\ dateRange.to # NoDate /\ selectedShop # ""
    /\ \E i \in 1..Len(filteredSales) :
          filteredSales[i].date = ParseDateInput(dateRange.to)
    /\ Len(filteredSales) < Len(sales)
    /\ filteredExpenses # <<>>
    /\ Len(filteredExpenses) < Len(expenses)

\* C2: totalSales is the sum of totalAmount over the filtered sales and
\* totalExpenses the sum of amount over the filtered expenses; each is 0 when
\* its filtered collection is empty.
C2_Totals ==
    /\ totalSales = SumSeq(Pick(filteredSales, Every, TotalAmountOf))
    /\ totalExpenses = SumSeq(Pick(filteredExpenses, Every, AmountOf))
    /\ (filteredSales = <<>> => totalSales = 0)
    /\ (filteredExpenses = <<>> => totalExpenses = 0)

\* Several sales and expenses are summed, and the filter has dropped some.
C2_Witness ==
    /\ Len(filteredSales) >= 2 /\ Len(filteredExpenses) >= 2
    /\ totalSales > 0 /\ totalExpenses > 0
    /\ selectedShop # ""

\* C3: profit is totalSales minus totalExpenses; profitMargin is
\* profit / totalSales * 100 when totalSales > 0 and exactly 0 otherwise.
C3_ProfitMargin ==
    /\ profit = totalSales - totalExpenses
    /\ totalSales > 0 =>
          /\ profitMargin.den > 0
          /\ profitMargin.num * totalSales = profit * 100 * profitMargin.den
    /\ totalSales <= 0 => profitMargin = Zero

\* No filtered revenue against filtered expenses: the margin would be -Infinity.
C3_Witness ==
    /\ totalSales = 0 /\ totalExpenses > 0
    /\ profit < 0 /\ profitMargin = Zero

\* C4: salesByShop has one entry per shop of the shops list, in the order of
\* the list, shops without sales included; each entry holds the sum of the
\* shop's filtered sales, the sum of its filtered expenses, the number of
\* its filtered sales and profit = sales - expenses.
C4_SalesByShop ==
    /\ Len(salesByShop) = Len(Shops)
    /\ \A i \in 1..Len(Shops) :
          LET OfShop(record) == record.shopId = Shops[i].id
              entry == salesByShop[i]
          IN  /\ entry.shopName = Shops[i].name
              /\ entry.sales = SumSeq(Pick(filteredSales, OfShop, TotalAmountOf))
              /\ entry.expenses = SumSeq(Pick(filteredExpenses, OfShop, AmountOf))
              /\ entry.transactions = Len(SelectSeq(filteredSales, OfShop))
              /\ entry.profit = entry.sales - entry.expenses

\* A shop with sales and expenses next to a shop with no transaction at all.
C4_Witness ==
    /\ \E i \in 1..Len(salesByShop) :
          salesByShop[i].sales > 0 /\ salesByShop[i].expenses > 0
    /\ \E i \in 1..Len(salesByShop) :
          /\ salesByShop[i].transactions = 0 /\ salesByShop[i].expenses = 0
          /\ \E j \in (i + 1)..Len(salesByShop) : salesByShop[j].transactions > 0

QuantityOf(sale) == sale.quantity

\* The distinct product ids of the filtered sales.
FilteredProductIds == {filteredSales[i].productId : i \in 1..Len(filteredSales)}

\* Where product p first occurs in the filtered sales.
FirstSeen(p) ==
    CHOOSE i \in 1..Len(filteredSales) :
        /\ filteredSales[i].productId = p
        /\ \A j \in 1..(i - 1) : filteredSales[j].productId # p

\* What the ranking is to report of product p.
ProductAggregate(p) ==
    LET OfProduct(sale) == sale.productId = p
    IN  [name         |-> filteredSales[FirstSeen(p)].productName,
         quantity     |-> SumSeq(Pick(filteredSales, OfProduct, QuantityOf)),
         revenue      |-> SumSeq(Pick(filteredSales, OfProduct, TotalAmountOf)),
         transactions |-> Len(SelectSeq(filteredSales, OfProduct))]

\* The aggregate of every product of the filtered sales.
ProductAggregates == [p \in FilteredProductIds |-> ProductAggregate(p)]

IsAggregateOfProduct(entry) == \E p \in FilteredProductIds : ProductAggregate(p) = entry

\* The product an entry of the ranking reports.
EntryProduct(entry) == CHOOSE p \in FilteredProductIds : ProductAggregate(p) = entry

\* C5: topProducts has at most 10 entries, each the summed quantity, summed
\* revenue and number of sales of one product of the filtered sales, no
\* product twice and none without a filtered sale; the entries are in order of
\* non-increasing revenue, and a product left out has no more revenue than
\* any product listed.
C5_TopProducts ==
    LET n        == Len(topProducts)
        top      == topProducts
        agg      == ProductAggregates
        included == {p \in FilteredProductIds : \E i \in 1..n : agg[p] = top[i]}
    IN  /\ n <= TopN
        /\ n = IF Cardinality(FilteredProductIds) < TopN
               THEN Cardinality(FilteredProductIds) ELSE TopN
        /\ \A i \in 1..n : \E p \in FilteredProductIds : agg[p] = top[i]
        /\ \A i \in 1..n : \A j \in (i + 1)..n : top[i] # top[j]
        /\ Cardinality(included) = n
        /\ \A i \in 1..n : \A j \in (i + 1)..n : top[i].revenue >= top[j].revenue
        /\ \A p \in FilteredProductIds \ included : \A i \in 1..n :
              agg[p].revenue <= top[i].revenue

\* More than ten products were sold, and one that is left out has revenue.
C5_Witness ==
    /\ Cardinality(FilteredProductIds) > TopN
    /\ Len(topProducts) = TopN
    /\ \E p \in FilteredProductIds :
          /\ \A i \in 1..Len(topProducts) : topProducts[i] # ProductAggregate(p)
          /\ ProductAggregate(p).revenue > 0
    /\ \E i \in 1..Len(topProducts) : topProducts[i].transactions > 1

\* C6: products of equal revenue appear in topProducts in the order in which
\* their ids first occur in the filtered sales, whatever the form of the ids.
C6_TiesInFirstSeenOrder ==
    \A i \in 1..Len(topProducts) : \A j \in (i + 1)..Len(topProducts) :
        (/\ IsAggregateOfProduct(topProducts[i])
         /\ IsAggregateOfProduct(topProducts[j])
         /\ topProducts[i].revenue = topProducts[j].revenue)
        => FirstSeen(EntryProduct(topProducts[i])) < FirstSeen(EntryProduct(topProducts[j]))

\* The local calendar day of the k-th day of the trend window, which ends on
\* the local day of the reference date.
WindowDay(k) == LocalDay(now, tz) - TrendDays + k

OnWindowDay(k, sale) == LocalDay(sale.date, tz) = WindowDay(k)

InWindow(sale) ==
    /\ LocalDay(now, tz) - (TrendDays - 1) <= LocalDay(sale.date, tz)
    /\ LocalDay(sale.date, tz) <= LocalDay(now, tz)

\* The buckets whose day filter of the trend loop lets the sale through.
BucketsCounting(sale) ==
    {k \in 1..Len(dailySales) :
        DaySales(<<sale>>, DaysAgoMidnight(now, TrendDays - k, tz), tz) # <<>>}

IsBreakdown(obj, records, KeyOf(_), ValueOf(_)) ==
    LET keys == {KeyOf(records[i]) : i \in 1..Len(records)}
    IN  /\ {obj.keys[i] : i \in 1..Len(obj.keys)} = keys
        /\ Len(obj.keys) = Cardinality(keys)
        /\ \A i \in 1..Len(obj.keys) :
              LET WithKey(record) == KeyOf(record) = obj.keys[i]
              IN  obj.val[i] = JSNum(SumSeq(Pick(records, WithKey, ValueOf)))

PaymentMethodOf(sale) == sale.paymentMethod
CategoryOf(expense) == expense.category

\* C9: paymentMethods maps each payment method of a filtered sale to the sum
\* of totalAmount of the filtered sales paid with it; a method without a
\* filtered sale is no key of it.
C9_PaymentMethods ==
    IsBreakdown(paymentMethods, filteredSales, PaymentMethodOf, TotalAmountOf)

\* A method is present with the value 0 because a sale of 0 used it, while
\* another method, used by no filtered sale, is absent.
C9_Witness ==
    /\ HasOwn(paymentMethods, "mobile") /\ OwnValue(paymentMethods, "mobile") = JSNum(0)
    /\ HasOwn(paymentMethods, "cash") /\ OwnValue(paymentMethods, "cash").num > 0
    /\ ~HasOwn(paymentMethods, "card")

\* C10: expenseCategories maps each category of a filtered expense to the sum
\* of amount of the filtered expenses of exactly that category, and has no
\* other key.
C10_ExpenseCategories ==
    IsBreakdown(expenseCategories, filteredExpenses, CategoryOf, AmountOf)

\* The stock a product holds in all shops together.
StockOverShops(product) ==
    SumSeq([i \in 1..Len(product.stock.keys) |-> OwnValue(product.stock, product.stock.keys[i])])

\* C11: stockAnalysis has one entry per product, in product order, with
\* totalStock the sum of the product's stock over all shops, stockValue =
\* totalStock * price, totalSold the sum of quantity of the filtered sales of
\* that product, turnoverRate = totalSold / totalStock when totalStock > 0
\* and 0 otherwise, and isLowStock true iff totalStock < minStock (strictly);
\* the low-stock list of the Stock Transfers page holds exactly the flagged
\* products.
C11_StockAnalysis ==
    /\ Len(stockAnalysis) = Len(Products)
    /\ \A i \in 1..Len(Products) :
          LET OfProduct(sale) == sale.productId = Products[i].id
              entry == stockAnalysis[i]
          IN  /\ entry.name = Products[i].name
              /\ entry.totalStock = StockOverShops(Products[i])
              /\ entry.stockValue = entry.totalStock * Products[i].price
              /\ entry.totalSold = SumSeq(Pick(filteredSales, OfProduct, QuantityOf))
              /\ entry.totalStock > 0 =>
                    /\ entry.turnoverRate.den > 0
                    /\ entry.turnoverRate.num * entry.totalStock
                          = entry.totalSold * entry.turnoverRate.den
              /\ entry.totalStock <= 0 => entry.turnoverRate = Zero
              /\ entry.isLowStock <=> (entry.totalStock < Products[i].minStock)
    /\ lowStockProducts
          = SelectSeq(Products, LAMBDA product :
                \E i \in 1..Len(Products) :
                    Products[i] = product /\ stockAnalysis[i].isLowStock)

\* Under a shop filter a product that is out of stock has filtered sales, and
\* a product holding exactly its minimum is sold without being flagged.
C11_Witness ==
    /\ selectedShop # ""
    /\ \E i \in 1..Len(stockAnalysis) :
          /\ stockAnalysis[i].totalStock = 0 /\ stockAnalysis[i].totalSold > 0
          /\ stockAnalysis[i].isLowStock
    /\ \E i \in 1..Len(stockAnalysis) :
          /\ stockAnalysis[i].totalStock = Products[i].minStock
          /\ stockAnalysis[i].totalSold > 0
          /\ ~stockAnalysis[i].isLowStock

Named(sale) == sale.customerName # ""

\* The distinct customer names of the filtered sales.
FilteredCustomers ==
    {filteredSales[i].customerName : i \in {j \in 1..Len(filteredSales) : Named(filteredSales[j])}}

\* What the ranking is to report of customer c.
CustomerAggregate(c) ==
    LET OfCustomer(sale) == sale.customerName = c
        theirs == SelectSeq(filteredSales, OfCustomer)
    IN  [name         |-> c,
         totalSpent   |-> SumSeq(Pick(filteredSales, OfCustomer, TotalAmountOf)),
         transactions |-> Len(theirs),
         lastPurchase |-> CHOOSE d \in {theirs[i].date : i \in 1..Len(theirs)} :
                              \A i \in 1..Len(theirs) : theirs[i].date <= d]

\* C12: topCustomers reports only customers named by a filtered sale, each
\* exact name once, with totalSpent the sum of totalAmount, transactions the
\* number and lastPurchase the latest date of that customer's filtered sales,
\* in whatever order the sales come; it lists every such customer up to 10,
\* in order of non-increasing totalSpent, a customer left out having spent no
\* more than any customer listed.
C12_TopCustomers ==
    LET n        == Len(topCustomers)
        top      == topCustomers
        included == {top[i].name : i \in 1..n}
    IN  /\ n = IF Cardinality(FilteredCustomers) < TopN
               THEN Cardinality(FilteredCustomers) ELSE TopN
        /\ \A i \in 1..n :
              top[i].name \in FilteredCustomers /\ top[i] = CustomerAggregate(top[i].name)
        /\ Cardinality(included) = n
        /\ \A i \in 1..n : \A j \in (i + 1)..n : top[i].totalSpent >= top[j].totalSpent
        /\ \A c \in FilteredCustomers \ included : \A i \in 1..n :
              CustomerAggregate(c).totalSpent <= top[i].totalSpent

\* The settings of the list filters of the Sales and Stock Transfers pages.
ListRanges ==
    {[from |-> NoDate, to |-> NoDate], [from |-> DateInput(Today - 1), to |-> NoDate],
     [from |-> NoDate, to |-> DateInput(Today - 1)]}
SalesListFilters == [shop : ShopFilters, payment : {"", "cash"}, range : ListRanges]
TransferListFilters ==
    [status : {"", "pending"}, fromShop : {"", "B"}, toShop : {"", "A"}, range : ListRanges]

\* The heap holds every collection of the context as the context holds it.
InputsAsBefore(h) == \A name \in DOMAIN InputHeap : h[name] = InputHeap[name]

\* C14: computing the analytics, or the filtered and sorted list of sales or
\* of stock transfers and a page of it, leaves sales, expenses, shops,
\* products and stockTransfers with the same records in the same order,
\* whatever the filters are set to.
C14_InputsNotMutated ==
    /\ InputsAsBefore(AnalyticsArrays(InputHeap, selectedShop, dateRange).heap)
    /\ \A f \in SalesListFilters :
          /\ InputsAsBefore(FilteredSalesList(InputHeap, f).heap)
          /\ InputsAsBefore(PaginatedList(FilteredSalesList(InputHeap, f), 1, ItemsPerPage).heap)
    /\ \A f \in TransferListFilters :
          /\ InputsAsBefore(FilteredTransfersList(InputHeap, f).heap)
          /\ InputsAsBefore(PaginatedList(FilteredTransfersList(InputHeap, f), 1,
                                           ItemsPerPage).heap)

\* Unfiltered, the Sales page lists the sales in another order than the
\* context holds them, the analytics read the array of the context itself
\* and rank two products against their order of entry, and the transfers
\* are listed in another order than the context holds them.
C14_Witness ==
    LET none     == [from |-> NoDate, to |-> NoDate]
        list     == FilteredSalesList(InputHeap, [shop |-> "", payment |-> "", range |-> none])
        arrays   == AnalyticsArrays(InputHeap, selectedShop, dateRange)
        moves    == FilteredTransfersList(InputHeap,
                        [status |-> "", fromShop |-> "", toShop |-> "", range |-> none])
    IN  /\ Len(list.heap[list.ref]) = Len(sales)
        /\ list.heap[list.ref] # sales
        /\ arrays.filteredSales = "sales"
        /\ arrays.heap[arrays.topProducts] = topProducts
        /\ Len(topProducts) = 2
        /\ topProducts[1].name = sales[2].productName
        /\ moves.heap[moves.ref] # stockTransfers
        /\ Len(moves.heap[moves.ref]) = Len(stockTransfers)
        /\ expenses # <<>>

\* The price of the product of a sale.
PriceOf(sale) == FindById(Products, sale.productId)[1].price

\* C15: every sale the form records has totalAmount = unitPrice * quantity *
\* (1 - discount / 100), with unitPrice the price of the selected product and
\* discount a number.
C15_TotalAmountEquation ==
    \A i \in 1..Len(sales) :
        /\ sales[i].unitPrice = Num(PriceOf(sales[i]))
        /\ IsFinite(sales[i].discount)
        /\ NumEquals(sales[i].totalAmount,
                     NumMul(NumMul(sales[i].unitPrice, sales[i].quantity),
                            NumSub(Num(1), NumOver(sales[i].discount, 100))))

\* C16: every sale the form records has a quantity that is an integer >= 1,
\* whatever text the quantity field held.
C16_QuantityAtLeastOne ==
    \A i \in 1..Len(sales) :
        /\ IsFinite(sales[i].quantity)
        /\ sales[i].quantity.den = 1
        /\ sales[i].quantity.num >= 1

\* C17: every sale the form records has a discount from 0 to 100 inclusive
\* and a totalAmount from 0 to unitPrice * quantity.
C17_DiscountInRange ==
    \A i \in 1..Len(sales) :
        /\ NumAtLeast(sales[i].discount, Num(0))
        /\ NumAtLeast(Num(100), sales[i].discount)
        /\ NumAtLeast(sales[i].totalAmount, Num(0))
        /\ NumAtLeast(NumMul(sales[i].unitPrice, sales[i].quantity), sales[i].totalAmount)

\* C18: when the filter leaves no sale and no expense, totalSales,
\* totalExpenses, profit, profitMargin, averageTransactionValue and
\* totalTransactions are 0, topProducts and topCustomers are empty lists,
\* paymentMethods, expenseCategories and salesByMonth are empty mappings,
\* every salesByShop entry has sales, expenses, transactions and profit 0,
\* and every stockAnalysis entry has totalSold 0 and turnoverRate 0.
C18_EmptyInput ==
    (filteredSales = <<>> /\ filteredExpenses = <<>>) =>
        /\ totalSales = 0 /\ totalExpenses = 0 /\ profit = 0
        /\ profitMargin = Zero /\ averageTransactionValue = Zero
        /\ totalTransactions = 0
        /\ topProducts = <<>> /\ topCustomers = <<>>
        /\ paymentMethods = EmptyObject /\ expenseCategories = EmptyObject
        /\ salesByMonth = EmptyObject
        /\ Len(salesByShop) = Len(Shops)
        /\ \A i \in 1..Len(salesByShop) :
              /\ salesByShop[i].sales = 0 /\ salesByShop[i].expenses = 0
              /\ salesByShop[i].transactions = 0 /\ salesByShop[i].profit = 0
        /\ Len(stockAnalysis) = Len(Products)
        /\ \A i \in 1..Len(stockAnalysis) :
              stockAnalysis[i].totalSold = 0 /\ stockAnalysis[i].turnoverRate = Zero

\* The context holds sales and expenses, and the filter leaves none of them.
C18_Witness ==
    /\ sales # <<>> /\ expenses # <<>>
    /\ filteredSales = <<>> /\ filteredExpenses = <<>>
    /\ analytics.totalTransactions = 0

\* The sum of a field over the records that have it.
SumPresent(records, field) ==
    LET having == SelectSeq(records, LAMBDA record : field \in DOMAIN record)
    IN  SumSeq([i \in 1..Len(having) |-> having[i][field]])

\* obj maps exactly the keys of the records to the sums of the values present.
IsBreakdownOfPresent(obj, records, keyField, valueField) ==
    LET keys == {records[i][keyField] : i \in 1..Len(records)}
    IN  /\ {obj.keys[i] : i \in 1..Len(obj.keys)} = keys
        /\ \A i \in 1..Len(obj.keys) :
              obj.val[i] = JSNum(SumPresent(
                  SelectSeq(records, LAMBDA record : record[keyField] = obj.keys[i]),
                  valueField))

\* C19: a record that lacks a numeric field counts as 0: totalSales,
\* totalExpenses and every sum of paymentMethods and expenseCategories are
\* numbers, the sums of the values that are present.
C19_MissingCountsAsZero ==
    /\ TotalOfField(filteredSales, "totalAmount")
          = JSNum(SumPresent(filteredSales, "totalAmount"))
    /\ TotalOfField(filteredExpenses, "amount")
          = JSNum(SumPresent(filteredExpenses, "amount"))
    /\ IsBreakdownOfPresent(BreakdownOfField(filteredSales, "paymentMethod", "totalAmount"),
                            filteredSales, "paymentMethod", "totalAmount")
    /\ IsBreakdownOfPresent(BreakdownOfField(filteredExpenses, "category", "amount"),
                            filteredExpenses, "category", "amount")

\* A quotient that did not come from a division by 0.
NoZeroDivisor(q) == q.den # 0

\* C20: no percentage or ratio of the Reports page divides by 0: the profit
\* margin, every turnover rate, the average transaction value, every shop's
\* average transaction, the expense-to-revenue bar, the share of every
\* payment method in totalSales and the share of every expense category in
\* totalExpenses.
C20_NoDivisionByZero ==
    /\ NoZeroDivisor(profitMargin)
    /\ NoZeroDivisor(averageTransactionValue)
    /\ \A i \in 1..Len(stockAnalysis) : NoZeroDivisor(stockAnalysis[i].turnoverRate)
    /\ \A i \in 1..Len(salesByShop) : NoZeroDivisor(ShopAverageTransaction(salesByShop[i]))
    /\ NoZeroDivisor(ExpenseToRevenue(totalExpenses, totalSales))
    /\ \A i \in 1..Len(paymentMethods.keys) :
          IsNum(paymentMethods.val[i])
              => NoZeroDivisor(PaymentShare(paymentMethods.val[i].num, totalSales))
    /\ \A i \in 1..Len(expenseCategories.keys) :
          IsNum(expenseCategories.val[i])
              => NoZeroDivisor(ExpenseShare(expenseCategories.val[i].num, totalExpenses))

(***************************************************************************)
(* C21: the worked example.  With the shops [A, B], the sales [100 at A,   *)
(* 50 at B], the expenses [30 at A] and no filter, totalSales is 150,      *)
(* totalExpenses 30, profit 120, profitMargin 80, and salesByShop lists A  *)
(* with sales 100, expenses 30, profit 70 and then B with sales 50,        *)
(* expenses 0, profit 50.                                                  *)
(***************************************************************************)
ExampleShops == <<ShopA, ShopB>>

\* The context holds the records of the example and no filter is set.
IsWorkedExample ==
    /\ selectedShop = ""
    /\ dateRange = [from |-> NoDate, to |-> NoDate]
    /\ Len(sales) = 2
    /\ sales[1].totalAmount = 100 /\ sales[1].shopId = "A"
    /\ sales[2].totalAmount = 50 /\ sales[2].shopId = "B"
    /\ Len(expenses) = 1
    /\ expenses[1].amount = 30 /\ expenses[1].shopId = "A"

\* C21: in the state of the worked example the analytics have the stated values.
C21_WorkedExample ==
    IsWorkedExample =>
        /\ totalSales = 150
        /\ totalExpenses = 30
        /\ profit = 120
        /\ profitMargin = [num |-> 80, den |-> 1]
        /\ SalesByShop(ExampleShops, filteredSales, filteredExpenses) =
               << [shopName |-> ShopA.name, sales |-> 100, expenses |-> 30,
                   transactions |-> 1, profit |-> 70],
                  [shopName |-> ShopB.name, sales |-> 50, expenses |-> 0,
                   transactions |-> 1, profit |-> 50] >>

C21_Witness == IsWorkedExample /\ profit = 120

(***************************************************************************)
(* C22: the sale form records a sale only for a quantity that does not     *)
(* exceed the stock of the selected product at the selected shop, a        *)
(* missing stock entry counting as 0.                                      *)
(***************************************************************************)
\* product.stock[shopId] of the product with that id, 0 where there is no entry.
StockAt(productId, shopId) ==
    LET product == CHOOSE p \in {Products[i] : i \in 1..Len(Products)} : p.id = productId
        at      == {i \in 1..Len(product.stock.keys) : product.stock.keys[i] = shopId}
    IN  IF at = {} THEN 0 ELSE product.stock.val[CHOOSE i \in at : TRUE]

\* C22: every sale the form has recorded has a quantity q with
\* q <= product.stock[shopId].
C22_QuantityWithinStock ==
    \A i \in 1..Len(sales) :
        NumAtLeast(Num(StockAt(sales[i].productId, sales[i].shopId)), sales[i].quantity)

(***************************************************************************)
(* C23: the transfer form never initiates a transfer from a shop to        *)
(* itself; both shops are shops of the context and the product is a        *)
(* product of the context.                                                 *)
(***************************************************************************)
ShopIds == {Shops[i].id : i \in 1..Len(Shops)}
ProductIds == {Products[i].id : i \in 1..Len(Products)}

\* C23: every transfer the form has initiated has fromShopId # toShopId, both
\* ids of shops of the shops list, and the id of a product of the products list.
C23_DistinctKnownShops ==
    \A i \in 1..Len(stockTransfers) :
        /\ stockTransfers[i].fromShopId # stockTransfers[i].toShopId
        /\ stockTransfers[i].fromShopId \in ShopIds
        /\ stockTransfers[i].toShopId \in ShopIds
        /\ stockTransfers[i].productId \in ProductIds

\* A transfer has been initiated, and the form now names one shop as source
\* and destination with everything else filled in, and was turned down.
C23_Witness ==
    /\ Len(stockTransfers) > 0
    /\ transferFormData.fromShopId # ""
    /\ transferFormData.fromShopId = transferFormData.toShopId
    /\ transferFormData.productId # ""
    /\ transferFormData.quantity = <<"1">>
    /\ toast = "error"

(***************************************************************************)
(* C24: the transfer form initiates a transfer only for a quantity of at   *)
(* least 1 and at most the stock of the product at the source shop, a      *)
(* missing stock entry counting as 0.                                      *)
(***************************************************************************)
\* C24: every transfer the form has initiated has 1 <= quantity <=
\* product.stock[fromShopId].
C24_TransferQuantityInRange ==
    \A i \in 1..Len(stockTransfers) :
        /\ NumAtLeast(stockTransfers[i].quantity, Num(1))
        /\ NumAtLeast(Num(StockAt(stockTransfers[i].productId, stockTransfers[i].fromShopId)),
                      stockTransfers[i].quantity)

(***************************************************************************)
(* C25: a submission that handleSubmit of the Sales or of the Stock        *)
(* Transfers page rejects raises an error and changes nothing else: no     *)
(* record is added, the modal stays as it is and the form keeps its data.  *)
(* Only an accepted submission adds the record, closes the modal and       *)
(* resets the form to its initial values.                                  *)
(***************************************************************************)
\* The cases in which the sale form is to be turned down.
SaleRejectionCase(fd) ==
    \/ fd.productId = "" \/ fd.shopId = "" \/ fd.quantity = <<>>
    \/ fd.productId \notin ProductIds \/ fd.shopId \notin ShopIds
    \/ NumGreater(ParseInt(fd.quantity), Num(StockAt(fd.productId, fd.shopId)))

\* The cases in which the transfer form is to be turned down.
TransferRejectionCase(fd) ==
    \/ fd.productId = "" \/ fd.fromShopId = "" \/ fd.toShopId = "" \/ fd.quantity = <<>>
    \/ fd.productId \notin ProductIds
    \/ fd.fromShopId \notin ShopIds \/ fd.toShopId \notin ShopIds
    \/ fd.fromShopId = fd.toShopId
    \/ NumGreater(ParseInt(fd.quantity), Num(StockAt(fd.productId, fd.fromShopId)))

\* A step that raises the error toast changes nothing but the toast.
ErrorChangesNothingElse ==
    (toast' = "error" /\ toast # "error") =>
        UNCHANGED <<sales, expenses, selectedShop, dateRange, now, tz, stockTransfers,
                    formData, isAddModalOpen, currentPage, transferFormData,
                    isTransferModalOpen>>

\* A step that records a sale starts from a form that is not to be turned
\* down, adds that one sale, raises the success toast, closes the modal and
\* resets the form; the Stock Transfers page is left alone.
SaleRecordedOnAcceptance ==
    (sales' # sales) =>
        /\ ~SaleRejectionCase(formData)
        /\ Len(sales') = Len(sales) + 1
        /\ SubSeq(sales', 1, Len(sales)) = sales
        /\ sales'[Len(sales')].productId = formData.productId
        /\ sales'[Len(sales')].shopId = formData.shopId
        /\ toast' = "success"
        /\ isAddModalOpen' = FALSE
        /\ formData' = InitialFormData
        /\ UNCHANGED <<stockTransfers, transferFormData, isTransferModalOpen>>

\* Likewise for a step that initiates a transfer.
TransferRecordedOnAcceptance ==
    (stockTransfers' # stockTransfers) =>
        /\ ~TransferRejectionCase(transferFormData)
        /\ Len(stockTransfers') = Len(stockTransfers) + 1
        /\ SubSeq(stockTransfers', 1, Len(stockTransfers)) = stockTransfers
        /\ stockTransfers'[Len(stockTransfers')].productId = transferFormData.productId
        /\ stockTransfers'[Len(stockTransfers')].fromShopId = transferFormData.fromShopId
        /\ stockTransfers'[Len(stockTransfers')].toShopId = transferFormData.toShopId
        /\ toast' = "success"
        /\ isTransferModalOpen' = FALSE
        /\ transferFormData' = InitialTransferFormData
        /\ UNCHANGED <<sales, formData, isAddModalOpen>>

\* The success toast is raised only together with a record.
SuccessOnlyWithRecord ==
    (toast' = "success" /\ toast # "success") =>
        (sales' # sales \/ stockTransfers' # stockTransfers)

\* While a form is to be turned down, a modal is closed only by closing it
\* (which resets its form), never by a submission that keeps the data.
ModalStaysOpen ==
    /\ (isAddModalOpen /\ ~isAddModalOpen' /\ sales' = sales) => formData' = InitialFormData
    /\ (isTransferModalOpen /\ ~isTransferModalOpen' /\ stockTransfers' = stockTransfers)
          => transferFormData' = InitialTransferFormData

\* C25: every step of the two pages is of one of these kinds.
C25_RejectionChangesNothing ==
    [][/\ ErrorChangesNothingElse
       /\ SaleRecordedOnAcceptance
       /\ TransferRecordedOnAcceptance
       /\ SuccessOnlyWithRecord
       /\ ModalStaysOpen]_vars

\* A transfer has been initiated, and then a sale of 4 units of a product of
\* which 3 are in stock was turned down with the modal open: the form still
\* holds what was entered and no sale is recorded.
C25_Witness ==
    /\ Len(stockTransfers) = 1
    /\ sales = <<>>
    /\ toast = "error"
    /\ isAddModalOpen
    /\ formData.productId = "2" /\ formData.shopId = "A" /\ formData.quantity = <<"4">>
    /\ SaleRejectionCase(formData)

(***************************************************************************)
(* C26: pagination.  currentPage stays within 1..max(1, totalPages), a     *)
(* non-empty filtered list never shows an empty page, a page holds at most *)
(* 10 records, and the pages 1..totalPages list every filtered record      *)
(* exactly once.                                                           *)
(***************************************************************************)
\* Page k of the filtered list of the Sales page.
PageOfSales(k) ==
    LET page == PaginatedList(FilteredSalesList(InputHeap, salesListFilter), k, ItemsPerPage)
    IN  page.heap[page.ref]

\* The pages 1..k one after the other.
RECURSIVE PagesUpTo(_)
PagesUpTo(k) == IF k = 0 THEN <<>> ELSE PagesUpTo(k - 1) \o PageOfSales(k)

\* A page holds at most 10 records, and the pages together are the filtered list.
PagesPartitionList ==
    /\ \A k \in 1..totalPages : Len(PageOfSales(k)) <= ItemsPerPage
    /\ PagesUpTo(totalPages) = salesList

\* C26: the page shown exists, shows records when there are any, and the
\* pages partition the list.
C26_Pagination ==
    /\ currentPage >= 1
    /\ currentPage <= (IF totalPages > 1 THEN totalPages ELSE 1)
    /\ (salesList # <<>> => paginatedSales # <<>>)
    /\ Len(paginatedSales) <= ItemsPerPage
    /\ PagesPartitionList

(***************************************************************************)
(* C27: conservation of totals across breakdowns.  The values of           *)
(* paymentMethods and of salesByMonth each sum to totalSales, the values   *)
(* of expenseCategories sum to totalExpenses, and the transaction counts   *)
(* of the productSales groups sum to totalTransactions.                    *)
(***************************************************************************)
\* The values of the breakdown are numbers and sum to the total.
ValuesSumTo(obj, total) ==
    /\ \A i \in 1..Len(obj.val) : IsNum(obj.val[i])
    /\ SumSeq([i \in 1..Len(obj.val) |-> obj.val[i].num]) = total

\* C27: each breakdown sums to the total it breaks down.
C27_BreakdownsConserveTotals ==
    /\ ValuesSumTo(paymentMethods, totalSales)
    /\ ValuesSumTo(salesByMonth, totalSales)
    /\ ValuesSumTo(expenseCategories, totalExpenses)
    /\ SumSeq([i \in 1..Len(productSales.val) |-> productSales.val[i].transactions])
          = totalTransactions

(***************************************************************************)
(* C28: the per-shop figures partition the totals.  With distinct shop ids *)
(* and every filtered sale and expense referring to a shop of the list,    *)
(* the sales, expenses, transactions and profits of the salesByShop        *)
(* entries sum to totalSales, totalExpenses, totalTransactions and profit; *)
(* under a shop filter every entry of another shop is all zero.            *)
(***************************************************************************)
\* Shop ids are distinct and the filtered records refer to listed shops.
ShopsCoverRecords ==
    /\ \A i, j \in 1..Len(Shops) : Shops[i].id = Shops[j].id => i = j
    /\ \A i \in 1..Len(filteredSales) : filteredSales[i].shopId \in ShopIds
    /\ \A i \in 1..Len(filteredExpenses) : filteredExpenses[i].shopId \in ShopIds

\* C28: the entries of salesByShop add up to the totals, and a shop filter
\* leaves the other shops at zero.
C28_ShopsPartitionTotals ==
    ShopsCoverRecords =>
        /\ SumSeq([i \in 1..Len(salesByShop) |-> salesByShop[i].sales]) = totalSales
        /\ SumSeq([i \in 1..Len(salesByShop) |-> salesByShop[i].expenses]) = totalExpenses
        /\ SumSeq([i \in 1..Len(salesByShop) |-> salesByShop[i].transactions])
              = totalTransactions
        /\ SumSeq([i \in 1..Len(salesByShop) |-> salesByShop[i].profit]) = profit
        /\ selectedShop # "" =>
              \A i \in 1..Len(Shops) :
                  Shops[i].id # selectedShop =>
                      /\ salesByShop[i].sales = 0
                      /\ salesByShop[i].expenses = 0
                      /\ salesByShop[i].transactions = 0
                      /\ salesByShop[i].profit = 0

\* A shop is selected that has a sale and an expense, and the context holds
\* sales and expenses of other shops as well.
C28_Witness ==
    /\ ShopsCoverRecords
    /\ selectedShop # ""
    /\ filteredSales # <<>> /\ Len(filteredSales) < Len(sales)
    /\ filteredExpenses # <<>> /\ Len(filteredExpenses) < Len(expenses)
    /\ profit # 0

(***************************************************************************)
(* C29: totalTransactions is the number of filtered sales, and             *)
(* averageTransactionValue is totalSales / totalTransactions when there is *)
(* a filtered sale and 0 when there is none, so that                       *)
(* averageTransactionValue * totalTransactions = totalSales.               *)
(***************************************************************************)
\* totalTransactions and averageTransactionValue are as stated.
CountAndAverage ==
    /\ totalTransactions = Len(filteredSales)
    /\ averageTransactionValue =
          IF Len(filteredSales) >= 1 THEN Divide(totalSales, Len(filteredSales)) ELSE Zero

\* (a / n) * n, computed in doubles, is a: the exact product of the double
\* a / n and n is a + QuotientError(a, n) / 2^(FractionBits - i), which rounds
\* to a exactly when it is no farther from a than half the gap to the next
\* double on that side (a whole number below 2^FractionBits has an even
\* significand, so a tie goes to a).
ProductIsTotal(a, n) ==
    LET j == BinaryExponent(a, 1)
        i == BinaryExponent(a, n)
        d == QuotientError(a, n)
    IN  /\ 2 * d <= Pow2(j - i)
        /\ (IF a = Pow2(j) THEN 4 ELSE 2) * (-d) <= Pow2(j - i)

\* (a / n) * n is within one unit in the last place of a.
ProductNearTotal(a, n) ==
    LET d   == QuotientError(a, n)
        gap == Pow2(BinaryExponent(a, 1) - BinaryExponent(a, n))
    IN  d <= gap /\ -d <= gap

\* C29: the count and the average are as stated, and their product, computed
\* as the page computes numbers, is totalSales.
C29_AverageTimesCount ==
    /\ CountAndAverage
    /\ IF totalTransactions = 0 \/ totalSales = 0
       THEN totalSales = 0
       ELSE ProductIsTotal(totalSales, totalTransactions)

\* C29, amended: the count and the average are as stated, and their product
\* is totalSales up to the rounding of the quotient: within one unit in the
\* last place of totalSales.
C29_AverageWithinRounding ==
    /\ CountAndAverage
    /\ IF totalTransactions = 0 \/ totalSales = 0
       THEN totalSales = 0
       ELSE ProductNearTotal(totalSales, totalTransactions)

\* Seven filtered sales of 29 in all: 29 / 7 * 7 is 29.000000000000004.
C29_Witness ==
    /\ totalTransactions = 7
    /\ totalSales = 29
    /\ ~ProductIsTotal(totalSales, totalTransactions)
    /\ ProductNearTotal(totalSales, totalTransactions)

\* C30: with the shop and date filter of the Reports page, an empty search
\* box and no payment method selected, the Sales page lists the records the
\* Reports page analyses, the newest first, and its total, count, average
\* and payment breakdown are those of the Reports page.
SameRecords ==
    /\ Len(salesList) = Len(filteredSales)
    /\ {salesList[i] : i \in 1..Len(salesList)}
         = {filteredSales[i] : i \in 1..Len(filteredSales)}
NewestFirst ==
    \A i, j \in 1..Len(salesList) : i < j => salesList[i].date >= salesList[j].date
WholeAmounts == \A i \in 1..Len(filteredSales) : IsWhole(filteredSales[i].totalAmount)
StatisticsAgree ==
    /\ salesPageTotalSales = reportsTotalSales
    /\ paymentBreakdown = reportsPaymentMethods
    /\ (IsWhole(salesPageTotalSales) /\ IsWhole(reportsTotalSales)
          => averageSale = reportsAverage)
C30_PagesAgree == SameRecords /\ NewestFirst /\ StatisticsAgree

\* C30, amended: the records, their count and the order of the list are as
\* stated; the total, the average and the payment breakdown agree whenever
\* the amounts are whole numbers, whose sums do not depend on the order in
\* which they are added.
C30_PagesAgreeOnWholeAmounts ==
    /\ SameRecords
    /\ NewestFirst
    /\ DOMAIN paymentBreakdown = DOMAIN reportsPaymentMethods
    /\ (WholeAmounts => StatisticsAgree)

C30_Witness ==
    /\ selectedShop = "A"
    /\ ~IsEmptyString(dateRange.from)
    /\ Len(filteredSales) = 2
    /\ Len(sales) > 2
    /\ WholeAmounts
    /\ salesList # filteredSales
    /\ salesPageTotalSales = FromWhole(3)
    /\ reportsTotalSales = FromWhole(3)

====
